---- MODULE Spec2Model ----
(***************************************************************************)
(* Compliance scoring and risk aggregation engine of the compliance        *)
(* copilot backend: the audit pipeline (ComplianceService), the regulatory *)
(* gap analysis (RegulatoryKnowledgeService), the third-party app risk     *)
(* model (ThirdPartyAppRiskService), the health check and the metrics      *)
(* (MonitoringService), the alerts (AlertService) and the writers of the   *)
(* tables they read (MerchantsService, DataSubjectRightsService).          *)
(***************************************************************************)
EXTENDS Integers, Sequences, FiniteSets, TLC

\* ------------------------------------------------------------------------
\* Bounds of the model
\* ------------------------------------------------------------------------
MaxPolicies == 2
MaxDataPoints == 2
\* writes to the policy and data-point tables that may interleave with a call
MaxStoreWrites == 1

\* applicable rules of one gap analysis, and the distinct
\* (requirement, category) pairs among them
MaxRules == 6
MaxRuleKinds == 2

\* rows of third_party_apps before any scan
MaxApps == 2

\* rows of the alerts table, and calls of the alert operations
MaxAlerts == 2
MaxAlertOps == 3

\* pending data-subject requests, recently withdrawn consents and recent
\* breach incidents of one merchant
MaxPendingRequests == 6
MaxWithdrawnConsents == 11
MaxBreaches == 2

\* calls of the data-subject-request operations
MaxRequestOps == 2

\* calls of the services other than the audit that one behaviour of the
\* whole backend makes
MaxSideCalls == 1

\* the calls of runComplianceAudit; each creates the audit of the same id
Runs == {"a1", "a2"}

\* m1 is a stored merchant, m0 an id no merchant row has.
ExistingMerchants == {"m1"}
MerchantIds == ExistingMerchants \cup {"m0"}
\* the merchants of the specifications that have two tenants
Tenants == {"m1", "m2"}

PolicyStatuses == {"draft", "published", "archived"}
\* legal_basis is a NOT NULL varchar, '' is its falsy value;
\* retention_period is a nullable int, null and 0 are falsy: 0 stands for both.
LegalBases == {"", "consent"}
RetentionPeriods == {0, 365}

NoError == ""
PolicyQueryError == "policy query failed"
DataPointQueryError == "data point query failed"
AuditSaveError == "audit save failed"
MerchantUpdateError == "merchant update failed"
NotFoundError(id) == "Merchant with ID " \o id \o " not found"

Max(a, b) == IF a >= b THEN a ELSE b
Min(a, b) == IF a <= b THEN a ELSE b

VARIABLES
    merchantRepo,    \* merchants table: id -> [complianceScore, complianceStatus]
    policyRepo,      \* privacy_policies per merchant, newest (createdAt DESC) first
    dataPointRepo,   \* data_collection_points per merchant
    auditRepo,       \* compliance_audits table: audit id -> persisted row
    pc,              \* position of each runComplianceAudit call
    runMerchant,     \* merchantId argument of the call
    audit,           \* the in-memory audit entity of the call
    findings,        \* performAuditChecks: findings accumulated so far
    recommendations, \* performAuditChecks: recommendations accumulated so far
    totalScore,      \* performAuditChecks: running total
    auditResult,     \* value returned by performAuditChecks
    caught,          \* message of the error caught by the catch block
    raised,          \* message of the error the call rejected with
    seen,            \* history: what each check's query returned
    storeWrites,     \* number of table writes done by CreatePolicy/.../DeleteDataPoint
    merchantData,    \* performGapAnalysis: the MerchantData argument
    applicableRules, \* performGapAnalysis: the rows findApplicableRules returned
    gapAnalysis,     \* performGapAnalysis: the ComplianceGapAnalysis returned
    riskScore,       \* third-party app: the computed risk score
    riskLevel,       \* third-party app: the level assigned from the score
    thirdPartyAppRepo,   \* third_party_apps table, in insertion order
    riskAssessmentRepo,  \* app_risk_assessments table, append-only
    assessed,        \* outcome of the last performRiskAssessment call
    now,             \* Date.now(), in hours
    dsrRepo,         \* data_subject_requests table: request id -> row
    consentRepo,     \* consent_records table: row -> number of such rows
    breachRepo,      \* breach_incidents table: row -> number of such rows
    alertRepo,       \* alerts table: alert id -> row
    alertOps,        \* number of AlertService calls made
    alertCall,       \* the error the last AlertService call rejected with
    requestOps,      \* number of DataSubjectRightsService calls made
    health,          \* outcome of the last performComplianceHealthCheck call
    metrics,         \* outcome of the last getMonitoringMetrics call
    dsrCall,         \* the process...Request call in flight, or its outcome
    daily            \* the performDailyHealthChecks run in flight, or its outcome

auditVars == <<merchantRepo, policyRepo, dataPointRepo, auditRepo, pc, runMerchant,
               audit, findings, recommendations, totalScore, auditResult, caught,
               raised, seen, storeWrites>>

gapVars == <<merchantData, applicableRules, gapAnalysis>>

riskVars == <<riskScore, riskLevel>>

assessVars == <<thirdPartyAppRepo, riskAssessmentRepo, assessed>>

monitorVars == <<now, dsrRepo, consentRepo, breachRepo, alertRepo, alertOps, alertCall,
                 requestOps, health, metrics>>

jobVars == <<dsrCall, daily>>

\* what the steps of one service leave alone
notAuditVars == <<gapVars, riskVars, assessVars, monitorVars, jobVars>>
notGapVars == <<auditVars, riskVars, assessVars, monitorVars, jobVars>>
notRiskVars == <<auditVars, gapVars, assessVars, monitorVars, jobVars>>
notAssessVars == <<auditVars, gapVars, riskVars, monitorVars, jobVars>>
notMonitorVars == <<auditVars, gapVars, riskVars, assessVars, jobVars>>

Undefined == <<>>
\* a nullable timestamp holds Undefined or Some(t)
Some(v) == <<v>>
\* a string property that is undefined, or a string column that is null
Absent == "undefined"

\* ------------------------------------------------------------------------
\* ComplianceService: the four checks and the status rule
\* ------------------------------------------------------------------------
\* the policy check satisfied by a published policy of any age
checkPrivacyPolicyAnyPublished(policies) ==
    IF Len(policies) = 0
    THEN [findings |-> <<[category |-> "Privacy Policy", severity |-> "critical",
                          description |-> "No privacy policy found"]>>,
          recommendations |-> <<[priority |-> "urgent",
                                 title |-> "Create Privacy Policy"]>>,
          deduction |-> 30]
    ELSE IF \A i \in 1..Len(policies) : policies[i] # "published"
    THEN [findings |-> <<[category |-> "Privacy Policy", severity |-> "high",
                          description |-> "Privacy policy exists but is not published"]>>,
          recommendations |-> <<>>,
          deduction |-> 15]
    ELSE [findings |-> <<>>, recommendations |-> <<>>, deduction |-> 0]

\* lines 147-190; policies is the query result, ordered by createdAt DESC
checkPrivacyPolicy(policies) ==
    IF Len(policies) = 0
    THEN [findings |-> <<[category |-> "Privacy Policy", severity |-> "critical",
                          description |-> "No privacy policy found"]>>,
          recommendations |-> <<[priority |-> "urgent",
                                 title |-> "Create Privacy Policy"]>>,
          deduction |-> 30]
    ELSE IF policies[1] # "published"
    THEN [findings |-> <<[category |-> "Privacy Policy", severity |-> "high",
                          description |-> "Privacy policy exists but is not published"]>>,
          recommendations |-> <<>>,
          deduction |-> 15]
    ELSE [findings |-> <<>>, recommendations |-> <<>>, deduction |-> 0]

\* checkDataMapping without the test on dataPoints.length
checkDataMappingAnyCount(dataPoints) ==
    [findings |-> <<[category |-> "Data Mapping", severity |-> "high",
                     description |-> "No data collection points mapped"]>>,
     recommendations |-> <<[priority |-> "high",
                            title |-> "Map Data Collection Points"]>>,
     deduction |-> 25]

checkDataMapping(dataPoints) ==
    IF Len(dataPoints) = 0
    THEN [findings |-> <<[category |-> "Data Mapping", severity |-> "high",
                          description |-> "No data collection points mapped"]>>,
          recommendations |-> <<[priority |-> "high",
                                 title |-> "Map Data Collection Points"]>>,
          deduction |-> 25]
    ELSE [findings |-> <<>>, recommendations |-> <<>>, deduction |-> 0]

IsMissingLegalBasis(point) == point.legalBasis = ""

checkLegalBasisScaled(dataPoints) ==
    LET pointsWithoutBasis == SelectSeq(dataPoints, IsMissingLegalBasis)
    IN  IF Len(pointsWithoutBasis) > 0
        THEN [findings |-> <<[category |-> "Legal Basis", severity |-> "critical",
                              description |-> ToString(Len(pointsWithoutBasis))
                                  \o " data collection points lack legal basis"]>>,
              recommendations |-> <<>>,
              deduction |-> 20 * Len(pointsWithoutBasis)]
        ELSE [findings |-> <<>>, recommendations |-> <<>>, deduction |-> 0]

checkLegalBasis(dataPoints) ==
    LET pointsWithoutBasis == SelectSeq(dataPoints, IsMissingLegalBasis)
    IN  IF Len(pointsWithoutBasis) > 0
        THEN [findings |-> <<[category |-> "Legal Basis", severity |-> "critical",
                              description |-> ToString(Len(pointsWithoutBasis))
                                  \o " data collection points lack legal basis"]>>,
              recommendations |-> <<>>,
              deduction |-> 20]
        ELSE [findings |-> <<>>, recommendations |-> <<>>, deduction |-> 0]

IsMissingRetention(point) == point.retentionPeriod = 0

checkRetentionPolicies(dataPoints) ==
    LET pointsWithoutRetention == SelectSeq(dataPoints, IsMissingRetention)
    IN  IF Len(pointsWithoutRetention) > 0
        THEN [findings |-> <<[category |-> "Data Retention", severity |-> "medium",
                              description |-> ToString(Len(pointsWithoutRetention))
                                  \o " data points lack retention policies"]>>,
              recommendations |-> <<>>,
              deduction |-> 10]
        ELSE [findings |-> <<>>, recommendations |-> <<>>, deduction |-> 0]

determineComplianceStatus(score) ==
    IF score >= 80 THEN "compliant"
    ELSE IF score >= 60 THEN "under_review"
    ELSE "non_compliant"

\* lines 84-88: the in-memory audit takes the results
markCompletedRiskIsScore(a, result) ==
    [merchant |-> a.merchant, auditType |-> a.auditType, status |-> "completed",
     createdAt |-> a.createdAt,
     riskScore |-> result.score,
     findings |-> result.findings,
     recommendations |-> result.recommendations,
     completedAt |-> "Date"]

markCompleted(a, result) ==
    [merchant |-> a.merchant, auditType |-> a.auditType, status |-> "completed",
     createdAt |-> a.createdAt,
     riskScore |-> 100 - result.score,
     findings |-> result.findings,
     recommendations |-> result.recommendations,
     completedAt |-> "Date"]

\* lines 100-101: the in-memory audit takes the failure
markFailedGenericMessage(a, message) ==
    [f \in DOMAIN a \cup {"auditData"} |->
        IF f = "status" THEN "failed"
        ELSE IF f = "auditData" THEN [error |-> "Audit failed"]
        ELSE a[f]]

markFailed(a, message) ==
    [f \in DOMAIN a \cup {"auditData"} |->
        IF f = "status" THEN "failed"
        ELSE IF f = "auditData" THEN [error |-> message]
        ELSE a[f]]

\* repository.save(entity): insert or overwrite the row of that id
Save(repo, id, entity) ==
    [x \in DOMAIN repo \cup {id} |-> IF x = id THEN entity ELSE repo[x]]

\* ------------------------------------------------------------------------
\* Initial state: a merchant row with the column defaults, never audited,
\* with any policies and data collection points
\* ------------------------------------------------------------------------
SeqsUpTo(S, n) == UNION {[1..k -> S] : k \in 0..n}

DataPoints == [legalBasis : LegalBases, retentionPeriod : RetentionPeriods]

InitAudit ==
    /\ merchantRepo = [m \in ExistingMerchants |->
                          [complianceScore |-> 0, complianceStatus |-> "pending"]]
    /\ policyRepo \in [ExistingMerchants -> SeqsUpTo(PolicyStatuses, MaxPolicies)]
    /\ dataPointRepo \in [ExistingMerchants -> SeqsUpTo(DataPoints, MaxDataPoints)]
    /\ storeWrites = 0
    /\ auditRepo = <<>>
    /\ pc = [r \in Runs |-> "idle"]
    /\ runMerchant = [r \in Runs |-> ""]
    /\ audit = [r \in Runs |-> Undefined]
    /\ findings = [r \in Runs |-> <<>>]
    /\ recommendations = [r \in Runs |-> <<>>]
    /\ totalScore = [r \in Runs |-> 100]
    /\ auditResult = [r \in Runs |-> Undefined]
    /\ caught = [r \in Runs |-> NoError]
    /\ raised = [r \in Runs |-> NoError]
    /\ seen = [r \in Runs |-> Undefined]

\* ------------------------------------------------------------------------
\* Writers of the tables the audit reads
\* ------------------------------------------------------------------------
CreatePolicy(m, status) ==
    /\ storeWrites < MaxStoreWrites
    /\ storeWrites' = storeWrites + 1
    /\ Len(policyRepo[m]) < MaxPolicies
    /\ policyRepo' = [policyRepo EXCEPT ![m] = <<status>> \o @]
    /\ UNCHANGED <<merchantRepo, dataPointRepo, auditRepo, pc, runMerchant, audit,
                   findings, recommendations, totalScore, auditResult, caught,
                   raised, seen>>
    /\ UNCHANGED notAuditVars

CreateDataPoint(m, legalBasis, retentionPeriod) ==
    /\ storeWrites < MaxStoreWrites
    /\ storeWrites' = storeWrites + 1
    /\ Len(dataPointRepo[m]) < MaxDataPoints
    /\ dataPointRepo' = [dataPointRepo EXCEPT ![m] =
           Append(@, [legalBasis |-> legalBasis, retentionPeriod |-> retentionPeriod])]
    /\ UNCHANGED <<merchantRepo, policyRepo, auditRepo, pc, runMerchant, audit,
                   findings, recommendations, totalScore, auditResult, caught,
                   raised, seen>>
    /\ UNCHANGED notAuditVars

DeleteDataPoint(m, i) ==
    /\ storeWrites < MaxStoreWrites
    /\ storeWrites' = storeWrites + 1
    /\ i \in 1..Len(dataPointRepo[m])
    /\ dataPointRepo' = [dataPointRepo EXCEPT ![m] =
           SubSeq(@, 1, i - 1) \o SubSeq(@, i + 1, Len(@))]
    /\ UNCHANGED <<merchantRepo, policyRepo, auditRepo, pc, runMerchant, audit,
                   findings, recommendations, totalScore, auditResult, caught,
                   raised, seen>>
    /\ UNCHANGED notAuditVars

\* ------------------------------------------------------------------------
\* runComplianceAudit, one action per awaited step
\* ------------------------------------------------------------------------
\* lines 68-77 with a run refused while another run of the merchant is in
\* flight
BeginAuditOneInFlight(r, m) ==
    /\ pc[r] = "idle"
    /\ \A other \in DOMAIN auditRepo :
          ~(auditRepo[other].merchant = m /\ auditRepo[other].status = "processing")
    /\ runMerchant' = [runMerchant EXCEPT ![r] = m]
    /\ IF m \notin DOMAIN merchantRepo
       THEN /\ raised' = [raised EXCEPT ![r] = NotFoundError(m)]
            /\ pc' = [pc EXCEPT ![r] = "rejected"]
            /\ UNCHANGED <<audit, auditRepo>>
       ELSE LET created == [merchant |-> m, auditType |-> "comprehensive",
                            status |-> "processing", createdAt |-> now]
            IN  /\ audit' = [audit EXCEPT ![r] = created]
                /\ \/ /\ auditRepo' = Save(auditRepo, r, created)
                      /\ pc' = [pc EXCEPT ![r] = "checkPrivacyPolicy"]
                      /\ UNCHANGED raised
                   \/ /\ raised' = [raised EXCEPT ![r] = AuditSaveError]
                      /\ pc' = [pc EXCEPT ![r] = "rejected"]
                      /\ UNCHANGED auditRepo
    /\ UNCHANGED <<merchantRepo, policyRepo, dataPointRepo, findings, recommendations,
                   totalScore, auditResult, caught, seen, storeWrites>>
    /\ UNCHANGED notAuditVars

\* lines 68-77: findById, create, first save
BeginAudit(r, m) ==
    /\ pc[r] = "idle"
    /\ runMerchant' = [runMerchant EXCEPT ![r] = m]
    /\ IF m \notin DOMAIN merchantRepo
       THEN /\ raised' = [raised EXCEPT ![r] = NotFoundError(m)]
            /\ pc' = [pc EXCEPT ![r] = "rejected"]
            /\ UNCHANGED <<audit, auditRepo>>
       ELSE LET created == [merchant |-> m, auditType |-> "comprehensive",
                            status |-> "processing", createdAt |-> now]
            IN  /\ audit' = [audit EXCEPT ![r] = created]
                /\ \/ /\ auditRepo' = Save(auditRepo, r, created)
                      /\ pc' = [pc EXCEPT ![r] = "checkPrivacyPolicy"]
                      /\ UNCHANGED raised
                   \/ /\ raised' = [raised EXCEPT ![r] = AuditSaveError]
                      /\ pc' = [pc EXCEPT ![r] = "rejected"]
                      /\ UNCHANGED auditRepo
    /\ UNCHANGED <<merchantRepo, policyRepo, dataPointRepo, findings, recommendations,
                   totalScore, auditResult, caught, seen, storeWrites>>
    /\ UNCHANGED notAuditVars

\* a rejected await inside the try block transfers control to the catch block
Throw(r, message) ==
    /\ caught' = [caught EXCEPT ![r] = message]
    /\ pc' = [pc EXCEPT ![r] = "catch"]

\* lines 113-116
Accumulate(r, check) ==
    /\ findings' = [findings EXCEPT ![r] = @ \o check.findings]
    /\ recommendations' = [recommendations EXCEPT ![r] = @ \o check.recommendations]
    /\ totalScore' = [totalScore EXCEPT ![r] = @ - check.deduction]

AuditCheckPrivacyPolicy(r) ==
    /\ pc[r] = "checkPrivacyPolicy"
    /\ \/ /\ Accumulate(r, checkPrivacyPolicy(policyRepo[runMerchant[r]]))
          /\ seen' = [seen EXCEPT ![r] = [policies |-> policyRepo[runMerchant[r]]]]
          /\ pc' = [pc EXCEPT ![r] = "checkDataMapping"]
          /\ UNCHANGED caught
       \/ /\ Throw(r, PolicyQueryError)
          /\ UNCHANGED <<findings, recommendations, totalScore, seen>>
    /\ UNCHANGED <<merchantRepo, policyRepo, dataPointRepo, auditRepo, runMerchant,
                   audit, auditResult, raised, storeWrites>>
    /\ UNCHANGED notAuditVars

AuditCheckDataMapping(r) ==
    /\ pc[r] = "checkDataMapping"
    /\ \/ /\ Accumulate(r, checkDataMapping(dataPointRepo[runMerchant[r]]))
          /\ seen' = [seen EXCEPT ![r] =
                 [policies |-> @.policies, mapping |-> dataPointRepo[runMerchant[r]]]]
          /\ pc' = [pc EXCEPT ![r] = "checkLegalBasis"]
          /\ UNCHANGED caught
       \/ /\ Throw(r, DataPointQueryError)
          /\ UNCHANGED <<findings, recommendations, totalScore, seen>>
    /\ UNCHANGED <<merchantRepo, policyRepo, dataPointRepo, auditRepo, runMerchant,
                   audit, auditResult, raised, storeWrites>>
    /\ UNCHANGED notAuditVars

AuditCheckLegalBasis(r) ==
    /\ pc[r] = "checkLegalBasis"
    /\ \/ /\ Accumulate(r, checkLegalBasis(dataPointRepo[runMerchant[r]]))
          /\ seen' = [seen EXCEPT ![r] =
                 [policies |-> @.policies, mapping |-> @.mapping,
                  legal |-> dataPointRepo[runMerchant[r]]]]
          /\ pc' = [pc EXCEPT ![r] = "checkRetentionPolicies"]
          /\ UNCHANGED caught
       \/ /\ Throw(r, DataPointQueryError)
          /\ UNCHANGED <<findings, recommendations, totalScore, seen>>
    /\ UNCHANGED <<merchantRepo, policyRepo, dataPointRepo, auditRepo, runMerchant,
                   audit, auditResult, raised, storeWrites>>
    /\ UNCHANGED notAuditVars

\* lines 131-144 and 84-88: the last check, the aggregation, and the
\* assignments to the in-memory audit that precede the awaited save
AuditCheckRetentionPolicies(r) ==
    /\ pc[r] = "checkRetentionPolicies"
    /\ \/ LET check == checkRetentionPolicies(dataPointRepo[runMerchant[r]])
              allFindings == findings[r] \o check.findings
              allRecommendations == recommendations[r] \o check.recommendations
              finalScore == Max(0, Min(100, totalScore[r] - check.deduction))
              result == [score |-> finalScore,
                         status |-> determineComplianceStatus(finalScore),
                         findings |-> allFindings,
                         recommendations |-> allRecommendations]
          IN  /\ Accumulate(r, check)
              /\ auditResult' = [auditResult EXCEPT ![r] = result]
              /\ audit' = [audit EXCEPT ![r] = markCompleted(@, result)]
              /\ seen' = [seen EXCEPT ![r] =
                     [policies |-> @.policies, mapping |-> @.mapping, legal |-> @.legal,
                      retention |-> dataPointRepo[runMerchant[r]]]]
              /\ pc' = [pc EXCEPT ![r] = "saveCompleted"]
              /\ UNCHANGED caught
       \/ /\ Throw(r, DataPointQueryError)
          /\ UNCHANGED <<findings, recommendations, totalScore, auditResult, audit, seen>>
    /\ UNCHANGED <<merchantRepo, policyRepo, dataPointRepo, auditRepo, runMerchant,
                   raised, storeWrites>>
    /\ UNCHANGED notAuditVars

\* line 90
SaveCompleted(r) ==
    /\ pc[r] = "saveCompleted"
    /\ \/ /\ auditRepo' = Save(auditRepo, r, audit[r])
          /\ pc' = [pc EXCEPT ![r] = "updateComplianceScore"]
          /\ UNCHANGED caught
       \/ /\ Throw(r, AuditSaveError)
          /\ UNCHANGED auditRepo
    /\ UNCHANGED <<merchantRepo, policyRepo, dataPointRepo, runMerchant, audit, findings,
                   recommendations, totalScore, auditResult, raised, seen, storeWrites>>
    /\ UNCHANGED notAuditVars

\* MerchantsService.updateComplianceScore
updateComplianceScore(merchants, merchantId, score) ==
    [m \in DOMAIN merchants |->
        IF m = merchantId
        THEN [complianceScore |-> score, complianceStatus |-> merchants[m].complianceStatus]
        ELSE merchants[m]]

\* MerchantsService.update(id, updateData), behind PATCH /merchants/profile:
\* the columns the body carries are written
updateMerchant(merchants, id, updateData) ==
    [m \in DOMAIN merchants |->
        IF m = id
        THEN [complianceScore |-> IF updateData.complianceScore = Undefined
                                  THEN merchants[m].complianceScore
                                  ELSE updateData.complianceScore[1],
              complianceStatus |-> IF updateData.complianceStatus = Absent
                                   THEN merchants[m].complianceStatus
                                   ELSE updateData.complianceStatus]
        ELSE merchants[m]]

\* bodies of the profile update: with or without the two compliance columns
ProfileUpdates ==
    [complianceScore : {Undefined, Some(100)},
     complianceStatus : {Absent, "compliant"}]

UpdateProfile(id, updateData) ==
    /\ id \in DOMAIN merchantRepo
    /\ merchantRepo' = updateMerchant(merchantRepo, id, updateData)
    /\ UNCHANGED <<policyRepo, dataPointRepo, auditRepo, pc, runMerchant, audit,
                   findings, recommendations, totalScore, auditResult, caught,
                   raised, seen, storeWrites>>
    /\ UNCHANGED notAuditVars

\* lines 93-98
UpdateScore(r) ==
    /\ pc[r] = "updateComplianceScore"
    /\ \/ /\ merchantRepo' =
                 updateComplianceScore(merchantRepo, runMerchant[r], auditResult[r].score)
          /\ pc' = [pc EXCEPT ![r] = "returned"]
          /\ UNCHANGED caught
       \/ /\ Throw(r, MerchantUpdateError)
          /\ UNCHANGED merchantRepo
    /\ UNCHANGED <<policyRepo, dataPointRepo, auditRepo, runMerchant, audit, findings,
                   recommendations, totalScore, auditResult, raised, seen, storeWrites>>
    /\ UNCHANGED notAuditVars

\* lines 99-104
CatchAndFail(r) ==
    /\ pc[r] = "catch"
    /\ LET failedAudit == markFailed(audit[r], caught[r])
       IN  /\ audit' = [audit EXCEPT ![r] = failedAudit]
           /\ \/ /\ auditRepo' = Save(auditRepo, r, failedAudit)
                 /\ raised' = [raised EXCEPT ![r] = caught[r]]
              \/ /\ raised' = [raised EXCEPT ![r] = AuditSaveError]
                 /\ UNCHANGED auditRepo
    /\ pc' = [pc EXCEPT ![r] = "rejected"]
    /\ UNCHANGED <<merchantRepo, policyRepo, dataPointRepo, runMerchant, findings,
                   recommendations, totalScore, auditResult, caught, seen, storeWrites>>
    /\ UNCHANGED notAuditVars

\* the steps of the calls in `calls`, and the writers of the tables
NextAuditOf(calls) ==
    \/ \E m \in ExistingMerchants, s \in PolicyStatuses : CreatePolicy(m, s)
    \/ \E m \in ExistingMerchants, lb \in LegalBases, rp \in RetentionPeriods :
           CreateDataPoint(m, lb, rp)
    \/ \E m \in ExistingMerchants, i \in 1..MaxDataPoints : DeleteDataPoint(m, i)
    \/ \E r \in calls, m \in MerchantIds : BeginAudit(r, m)
    \/ \E r \in calls : AuditCheckPrivacyPolicy(r)
    \/ \E r \in calls : AuditCheckDataMapping(r)
    \/ \E r \in calls : AuditCheckLegalBasis(r)
    \/ \E r \in calls : AuditCheckRetentionPolicies(r)
    \/ \E r \in calls : SaveCompleted(r)
    \/ \E r \in calls : UpdateScore(r)
    \/ \E r \in calls : CatchAndFail(r)

\* ------------------------------------------------------------------------
\* RegulatoryKnowledgeService: gap analysis
\* ------------------------------------------------------------------------
\* ORDER BY rule.requirement ASC, rule.category ASC over the enum columns;
\* data_retention stands for the categories the switch has no case for.
Requirements == <<"mandatory", "recommended", "optional">>
Categories == <<"consent_management", "data_retention", "data_subject_rights",
                "privacy_policy", "cookie_management">>

RuleKind(k) ==
    LET requirement == Requirements[((k - 1) \div Len(Categories)) + 1]
        category == Categories[((k - 1) % Len(Categories)) + 1]
    IN  [category |-> category, requirement |-> requirement,
         title |-> category \o " rule (" \o requirement \o ")"]

NumRuleKinds == Len(Requirements) * Len(Categories)

IndexOf(s, x) == CHOOSE i \in 1..Len(s) : s[i] = x

KindOf(rule) ==
    (IndexOf(Requirements, rule.requirement) - 1) * Len(Categories)
        + IndexOf(Categories, rule.category)

KindsIn(rules) == {KindOf(rules[i]) : i \in 1..Len(rules)}

Policies == {"privacy_policy"}
Controls == {"consent_management", "dsar_workflow", "cookie_consent", "data_retention"}

getRuleWeightOptionalAsDefault(requirement) ==
    CASE requirement = "mandatory" -> 10
      [] requirement = "recommended" -> 5
      [] OTHER -> 5

getRuleWeight(requirement) ==
    CASE requirement = "mandatory" -> 10
      [] requirement = "recommended" -> 5
      [] requirement = "optional" -> 1
      [] OTHER -> 5

getRiskScore(level) ==
    CASE level = "critical" -> 4
      [] level = "high" -> 3
      [] level = "medium" -> 2
      [] level = "low" -> 1
      [] OTHER -> 2

\* days added to now; the empty set is `undefined`
calculateDeadline(rule, status) ==
    IF status = "compliant" THEN {}
    ELSE IF rule.requirement = "mandatory"
         THEN {IF status = "non_compliant" THEN 15 ELSE 30}
         ELSE {60}

\* the classification with a dsar_workflow control counted as full compliance
classifyByCategoryDsarCompliant(rule, md) ==
    LET initial == [currentStatus |-> "non_compliant", riskLevel |-> "medium",
                    actionRequired |-> "Implement " \o rule.title]
    IN  CASE rule.category = "privacy_policy" ->
               IF "privacy_policy" \in md.currentPolicies
               THEN [currentStatus |-> "compliant", riskLevel |-> "low",
                     actionRequired |-> "Review and update privacy policy regularly"]
               ELSE [initial EXCEPT !.riskLevel = "critical",
                        !.actionRequired = "Create and publish privacy policy immediately"]
          [] rule.category = "consent_management" ->
               IF "consent_management" \in md.implementedControls
               THEN [initial EXCEPT !.currentStatus = "compliant", !.riskLevel = "low"]
               ELSE [initial EXCEPT !.riskLevel = "high",
                        !.actionRequired = "Implement consent management system"]
          [] rule.category = "data_subject_rights" ->
               IF "dsar_workflow" \in md.implementedControls
               THEN [currentStatus |-> "compliant", riskLevel |-> "low",
                     actionRequired |-> "Enhance data subject rights workflow"]
               ELSE [initial EXCEPT !.riskLevel = "high",
                        !.actionRequired = "Implement data subject rights management"]
          [] rule.category = "cookie_management" ->
               IF "cookie_consent" \in md.implementedControls
               THEN [initial EXCEPT !.currentStatus = "compliant", !.riskLevel = "low"]
               ELSE [initial EXCEPT !.riskLevel = "medium",
                        !.actionRequired = "Implement cookie consent management"]
          [] OTHER ->
               IF rule.category \in md.implementedControls
               THEN [initial EXCEPT !.currentStatus = "partial", !.riskLevel = "medium"]
               ELSE initial

\* lines 174-233: the classification by category, before the adjustment
classifyByCategory(rule, md) ==
    LET initial == [currentStatus |-> "non_compliant", riskLevel |-> "medium",
                    actionRequired |-> "Implement " \o rule.title]
    IN  CASE rule.category = "privacy_policy" ->
               IF "privacy_policy" \in md.currentPolicies
               THEN [currentStatus |-> "compliant", riskLevel |-> "low",
                     actionRequired |-> "Review and update privacy policy regularly"]
               ELSE [initial EXCEPT !.riskLevel = "critical",
                        !.actionRequired = "Create and publish privacy policy immediately"]
          [] rule.category = "consent_management" ->
               IF "consent_management" \in md.implementedControls
               THEN [initial EXCEPT !.currentStatus = "compliant", !.riskLevel = "low"]
               ELSE [initial EXCEPT !.riskLevel = "high",
                        !.actionRequired = "Implement consent management system"]
          [] rule.category = "data_subject_rights" ->
               IF "dsar_workflow" \in md.implementedControls
               THEN [currentStatus |-> "partial", riskLevel |-> "medium",
                     actionRequired |-> "Enhance data subject rights workflow"]
               ELSE [initial EXCEPT !.riskLevel = "high",
                        !.actionRequired = "Implement data subject rights management"]
          [] rule.category = "cookie_management" ->
               IF "cookie_consent" \in md.implementedControls
               THEN [initial EXCEPT !.currentStatus = "compliant", !.riskLevel = "low"]
               ELSE [initial EXCEPT !.riskLevel = "medium",
                        !.actionRequired = "Implement cookie consent management"]
          [] OTHER ->
               IF rule.category \in md.implementedControls
               THEN [initial EXCEPT !.currentStatus = "partial", !.riskLevel = "medium"]
               ELSE initial

adjustRiskAnyStatus(rule, currentStatus, level) ==
    IF rule.requirement = "mandatory"
    THEN IF level = "low" THEN "medium"
         ELSE IF level = "medium" THEN "high"
         ELSE "critical"
    ELSE level

\* lines 235-245: the adjustment by requirement level
adjustRisk(rule, currentStatus, level) ==
    IF rule.requirement = "mandatory" /\ currentStatus = "non_compliant"
    THEN IF level = "low" THEN "medium"
         ELSE IF level = "medium" THEN "high"
         ELSE "critical"
    ELSE level

analyzeRuleCompliance(rule, md) ==
    LET c == classifyByCategory(rule, md)
    IN  [rule |-> rule,
         currentStatus |-> c.currentStatus,
         riskLevel |-> adjustRisk(rule, c.currentStatus, c.riskLevel),
         actionRequired |-> c.actionRequired,
         deadline |-> calculateDeadline(rule, c.currentStatus)]

\* lines 129-143; totalScore is kept doubled, so that half a weight is an integer
RECURSIVE scoreLoop(_, _, _, _)
scoreLoop(gaps, i, totalScore2, maxScore) ==
    IF i > Len(gaps)
    THEN [totalScore2 |-> totalScore2, maxScore |-> maxScore]
    ELSE LET weight == getRuleWeight(gaps[i].rule.requirement)
             gained2 == IF gaps[i].currentStatus = "compliant" THEN 2 * weight
                        ELSE IF gaps[i].currentStatus = "partial" THEN weight
                        ELSE 0
         IN  scoreLoop(gaps, i + 1, totalScore2 + gained2, maxScore + weight)

\* Math.round((totalScore / maxScore) * 100) on IEEE-754 doubles: the nearest
\* integer, a tie going up.  For maxScore < 100 the double product equals the
\* exact one at every tie except totalScore / maxScore = 23/40, where
\* 0.575 * 100 evaluates to 57.49999999999999 and rounds to 57.
mathRoundPercent(totalScore2, maxScore) ==
    IF 40 * totalScore2 = 46 * maxScore THEN 57
    ELSE (100 * totalScore2 + maxScore) \div (2 * maxScore)

IsHighOrCritical(gap) == gap.riskLevel = "critical" \/ gap.riskLevel = "high"

insertBeforeEqual(sorted, gap) ==
    LET before(g) == getRiskScore(g.riskLevel) > getRiskScore(gap.riskLevel)
        after(g) == ~before(g)
    IN  SelectSeq(sorted, before) \o <<gap>> \o SelectSeq(sorted, after)

\* Array.prototype.sort is stable: an element goes behind those comparing equal
insertStable(sorted, gap) ==
    LET before(g) == getRiskScore(g.riskLevel) >= getRiskScore(gap.riskLevel)
        after(g) == ~before(g)
    IN  SelectSeq(sorted, before) \o <<gap>> \o SelectSeq(sorted, after)

RECURSIVE sortLoop(_, _, _)
sortLoop(gaps, i, sorted) ==
    IF i > Len(gaps) THEN sorted
    ELSE sortLoop(gaps, i + 1, insertStable(sorted, gaps[i]))

\* .sort((a, b) => getRiskScore(b.riskLevel) - getRiskScore(a.riskLevel))
sortByRiskDescending(gaps) == sortLoop(gaps, 1, <<>>)

PriorityCap == 5

slice(s, n) == SubSeq(s, 1, Min(n, Len(s)))

RECURSIVE dropRepeated(_, _)
dropRepeated(gaps, i) ==
    IF i > Len(gaps) THEN <<>>
    ELSE IF \E j \in 1..(i - 1) : gaps[j].actionRequired = gaps[i].actionRequired
         THEN dropRepeated(gaps, i + 1)
         ELSE <<gaps[i]>> \o dropRepeated(gaps, i + 1)

priorityActionsDeduplicated(gaps) ==
    LET chosen == slice(dropRepeated(
                      sortByRiskDescending(SelectSeq(gaps, IsHighOrCritical)), 1),
                      PriorityCap)
    IN  [i \in 1..Len(chosen) |-> chosen[i].actionRequired]

\* lines 149-158
priorityActionsOf(gaps) ==
    LET chosen == slice(sortByRiskDescending(SelectSeq(gaps, IsHighOrCritical)),
                        PriorityCap)
    IN  [i \in 1..Len(chosen) |-> chosen[i].actionRequired]

performGapAnalysis(merchantId, md, rules) ==
    LET gaps == [i \in 1..Len(rules) |-> analyzeRuleCompliance(rules[i], md)]
        scores == scoreLoop(gaps, 1, 0, 0)
    IN  [merchantId |-> merchantId,
         applicableRules |-> rules,
         gaps |-> gaps,
         overallComplianceScore |->
             IF scores.maxScore > 0
             THEN mathRoundPercent(scores.totalScore2, scores.maxScore)
             ELSE 100,
         priorityActions |-> priorityActionsOf(gaps)]

InitGap ==
    /\ merchantData \in [currentPolicies : SUBSET Policies,
                         implementedControls : SUBSET Controls]
    /\ applicableRules = <<>>
    /\ gapAnalysis = Undefined

IdleGap ==
    /\ merchantData = [currentPolicies |-> {}, implementedControls |-> {}]
    /\ applicableRules = <<>>
    /\ gapAnalysis = Undefined

\* findApplicableRules, lines 92-95: the next row of the ordered result
NextApplicableRule(k) ==
    /\ gapAnalysis = Undefined
    /\ Len(applicableRules) < MaxRules
    /\ \A j \in KindsIn(applicableRules) : j <= k
    /\ Cardinality(KindsIn(applicableRules) \cup {k}) <= MaxRuleKinds
    /\ applicableRules' = Append(applicableRules, RuleKind(k))
    /\ UNCHANGED <<merchantData, gapAnalysis>>
    /\ UNCHANGED notGapVars

PerformGapAnalysis ==
    /\ gapAnalysis = Undefined
    /\ gapAnalysis' = performGapAnalysis("m1", merchantData, applicableRules)
    /\ UNCHANGED <<merchantData, applicableRules>>
    /\ UNCHANGED notGapVars

\* ------------------------------------------------------------------------
\* ThirdPartyAppRiskService: the level of a risk score
\* ------------------------------------------------------------------------
calculateRiskLevelExclusive(score) ==
    IF score > 80 THEN "critical"
    ELSE IF score > 60 THEN "high"
    ELSE IF score > 40 THEN "medium"
    ELSE "low"

calculateRiskLevelHighFrom50(score) ==
    IF score >= 80 THEN "critical"
    ELSE IF score >= 50 THEN "high"
    ELSE IF score >= 40 THEN "medium"
    ELSE "low"

calculateRiskLevel(score) ==
    IF score >= 80 THEN "critical"
    ELSE IF score >= 60 THEN "high"
    ELSE IF score >= 40 THEN "medium"
    ELSE "low"

InitRisk ==
    /\ riskScore \in 0..100
    /\ riskLevel = ""

IdleRisk ==
    /\ riskScore = 0
    /\ riskLevel = ""

\* lines 359-360: riskLevel = this.calculateRiskLevel(finalRiskScore)
AssignRiskLevel ==
    /\ riskLevel = ""
    /\ riskLevel' = calculateRiskLevel(riskScore)
    /\ UNCHANGED riskScore
    /\ UNCHANGED notRiskVars

\* ------------------------------------------------------------------------
\* ThirdPartyAppRiskService: scan, per-app analysis, fleet assessment
\* ------------------------------------------------------------------------
\* A scope 'read_orders' is the record of its verb and its resource;
\* scope.includes('write') is a test on the verb, scope.includes('orders')
\* one on the resource.
Scope(verb, resource) == [verb |-> verb, resource |-> resource]

highRiskPermissions ==
    {Scope("read", "customers"), Scope("write", "customers"),
     Scope("read", "orders"), Scope("write", "orders"),
     Scope("read_all", "orders"), Scope("write_all", "orders"),
     Scope("read", "users"), Scope("write", "users"),
     Scope("read", "script_tags"), Scope("write", "script_tags")}

\* no scope of the model contains a pattern without being that pattern
IsHighRiskScope(scope) == scope \in highRiskPermissions

IncludesWrite(scope) == scope.verb \in {"write", "write_all"}
IncludesReadAll(scope) == scope.verb = "read_all"

\* a missing privacy_policy_url or developer is the empty string: both falsy
simulateShopifyAppScan ==
    <<[id |-> "app_123", title |-> "Google Analytics Enhanced Ecommerce",
       developer |-> "Google",
       privacy_policy_url |-> "https://policies.google.com/privacy",
       requested_access_scopes |->
           <<Scope("read", "orders"), Scope("read", "customers"),
             Scope("read", "products"), Scope("write", "script_tags")>>],
      [id |-> "app_456", title |-> "Mailchimp Email Marketing",
       developer |-> "Mailchimp",
       privacy_policy_url |-> "https://mailchimp.com/legal/privacy/",
       requested_access_scopes |->
           <<Scope("read", "customers"), Scope("write", "customers"),
             Scope("read", "orders")>>],
      [id |-> "app_789", title |-> "Custom Analytics Dashboard",
       developer |-> "Unknown Developer",
       privacy_policy_url |-> "",
       requested_access_scopes |->
           <<Scope("read_all", "orders"), Scope("read", "customers"),
             Scope("read", "products"), Scope("read", "inventory"),
             Scope("write", "script_tags")>>]>>

determineDataAccessLevel(scopes) ==
    LET writeScopes == SelectSeq(scopes, IncludesWrite)
        readAllScopes == SelectSeq(scopes, IncludesReadAll)
    IN  IF Len(writeScopes) > 3 \/ Len(readAllScopes) > 0 THEN "full_access"
        ELSE IF Len(writeScopes) > 0 THEN "read_write"
        ELSE "read_only"

HasResource(scopes, resource) ==
    \E i \in 1..Len(scopes) : scopes[i].resource = resource

extractDataTypes(scopes) ==
    (IF HasResource(scopes, "customers")
     THEN <<"personal_data", "contact_information">> ELSE <<>>)
    \o (IF HasResource(scopes, "orders")
        THEN <<"transaction_data", "payment_information">> ELSE <<>>)
    \o (IF HasResource(scopes, "products") THEN <<"product_data">> ELSE <<>>)

\* a row of third_party_apps; riskLevel, riskScore and isActive take the
\* column defaults until an assessment or an operator writes them
AppRow(merchantId, appName, developer, permissions, dataAccessLevel, riskFactors) ==
    [merchantId |-> merchantId, appName |-> appName, developer |-> developer,
     permissions |-> permissions, dataAccessLevel |-> dataAccessLevel,
     riskFactors |-> riskFactors,
     riskLevel |-> "medium", riskScore |-> 50, complianceIssues |-> Undefined,
     isActive |-> TRUE, lastRiskAssessment |-> Undefined]

processShopifyApp(merchantId, appData) ==
    AppRow(merchantId, appData.title, appData.developer,
           [scopes |-> appData.requested_access_scopes],
           determineDataAccessLevel(appData.requested_access_scopes),
           [dataTypes |-> extractDataTypes(appData.requested_access_scopes),
            encryptionStatus |-> "unknown",
            privacyPolicyUrl |-> appData.privacy_policy_url,
            dataRetentionPeriod |-> "unknown"])

IsSensitive(type) == type \in {"personal_data", "payment_information"}

analyzeDataAccessRisk(app) ==
    LET access ==
            IF app.dataAccessLevel = "full_access"
            THEN [factors |-> <<[category |-> "Data Access", severity |-> "critical"]>>,
                  score |-> 80]
            ELSE IF app.dataAccessLevel = "read_write"
            THEN [factors |-> <<[category |-> "Data Access", severity |-> "high"]>>,
                  score |-> 60]
            ELSE [factors |-> <<>>, score |-> 0]
        sensitiveData ==
            IF app.riskFactors = Undefined THEN <<>>
            ELSE SelectSeq(app.riskFactors.dataTypes, IsSensitive)
    IN  IF Len(sensitiveData) > 0
        THEN [factors |-> access.factors
                  \o <<[category |-> "Sensitive Data", severity |-> "high"]>>,
              score |-> access.score + 40]
        ELSE access

analyzePermissionRisk(app) ==
    LET scopes == IF app.permissions = Undefined THEN <<>> ELSE app.permissions.scopes
        highRiskCount == Len(SelectSeq(scopes, IsHighRiskScope))
    IN  IF highRiskCount > 3
        THEN [factors |-> <<[category |-> "Permissions", severity |-> "high"]>>,
              score |-> 70]
        ELSE IF highRiskCount > 0
        THEN [factors |-> <<[category |-> "Permissions", severity |-> "medium"]>>,
              score |-> 40]
        ELSE [factors |-> <<>>, score |-> 0]

HasPrivacyPolicyUrl(app) ==
    app.riskFactors # Undefined /\ app.riskFactors.privacyPolicyUrl # ""

analyzeComplianceRisk(app) ==
    LET policy ==
            IF ~HasPrivacyPolicyUrl(app)
            THEN [factors |-> <<[category |-> "Compliance", severity |-> "high"]>>,
                  score |-> 60]
            ELSE [factors |-> <<>>, score |-> 0]
    IN  IF app.riskFactors # Undefined /\ app.riskFactors.dataRetentionPeriod = "unknown"
        THEN [factors |-> policy.factors
                  \o <<[category |-> "Data Retention", severity |-> "medium"]>>,
              score |-> policy.score + 30]
        ELSE policy

analyzeSecurityRisk(app) ==
    IF app.riskFactors # Undefined /\ app.riskFactors.encryptionStatus = "unknown"
    THEN [factors |-> <<[category |-> "Security", severity |-> "medium"]>>,
          score |-> 30]
    ELSE [factors |-> <<>>, score |-> 0]

analyzeReputationRisk(app) ==
    IF app.developer = "" \/ app.developer = "Unknown Developer"
    THEN [factors |-> <<[category |-> "Developer Reputation", severity |-> "medium"]>>,
          score |-> 40]
    ELSE [factors |-> <<>>, score |-> 0]

\* riskWeights, in hundredths
riskWeights ==
    [dataAccess |-> 30, permissions |-> 25, compliance |-> 20, security |-> 15,
     reputation |-> 10]

\* Math.round of a number given in hundredths.  For every combination of the
\* sub-scores the five analyses can return, the double sum the code
\* accumulates rounds to the same integer as the exact sum.
mathRoundHundredths(x) == (x + 50) \div 100

generateAppRecommendations(app, factors) ==
    (IF \E i \in 1..Len(factors) : factors[i].category = "Data Access"
     THEN <<"Review and minimize app data access permissions">> ELSE <<>>)
    \o (IF ~HasPrivacyPolicyUrl(app)
        THEN <<"Request privacy policy from app developer">> ELSE <<>>)
    \o (IF app.riskScore > 70
        THEN <<"Consider removing or replacing this high-risk app">> ELSE <<>>)

identifyAppComplianceGaps(app) ==
    IF ~HasPrivacyPolicyUrl(app)
    THEN <<[regulation |-> "GDPR",
            requirement |-> "Article 28 - Processor agreements"]>>
    ELSE <<>>

WeightedSum(dataAccess, permissions, compliance, security, reputation) ==
    dataAccess * riskWeights.dataAccess + permissions * riskWeights.permissions
        + compliance * riskWeights.compliance + security * riskWeights.security
        + reputation * riskWeights.reputation

analyzeAppRiskUnweighted(app) ==
    LET dataAccessRisk == analyzeDataAccessRisk(app)
        permissionRisk == analyzePermissionRisk(app)
        complianceRisk == analyzeComplianceRisk(app)
        securityRisk == analyzeSecurityRisk(app)
        reputationRisk == analyzeReputationRisk(app)
        factors == dataAccessRisk.factors \o permissionRisk.factors
                     \o complianceRisk.factors \o securityRisk.factors
                     \o reputationRisk.factors
        finalRiskScore ==
            Min(100, Max(0, (dataAccessRisk.score + permissionRisk.score
                             + complianceRisk.score + securityRisk.score
                             + reputationRisk.score + 2) \div 5))
    IN  [appName |-> app.appName,
         riskLevel |-> calculateRiskLevel(finalRiskScore),
         riskScore |-> finalRiskScore,
         riskFactors |-> factors,
         recommendations |-> generateAppRecommendations(app, factors),
         complianceGaps |-> identifyAppComplianceGaps(app)]

analyzeAppRisk(app) ==
    LET dataAccessRisk == analyzeDataAccessRisk(app)
        permissionRisk == analyzePermissionRisk(app)
        complianceRisk == analyzeComplianceRisk(app)
        securityRisk == analyzeSecurityRisk(app)
        reputationRisk == analyzeReputationRisk(app)
        factors == dataAccessRisk.factors \o permissionRisk.factors
                     \o complianceRisk.factors \o securityRisk.factors
                     \o reputationRisk.factors
        finalRiskScore ==
            Min(100, Max(0, mathRoundHundredths(
                WeightedSum(dataAccessRisk.score, permissionRisk.score,
                            complianceRisk.score, securityRisk.score,
                            reputationRisk.score))))
    IN  [appName |-> app.appName,
         riskLevel |-> calculateRiskLevel(finalRiskScore),
         riskScore |-> finalRiskScore,
         riskFactors |-> factors,
         recommendations |-> generateAppRecommendations(app, factors),
         complianceGaps |-> identifyAppComplianceGaps(app)]

\* factor.category.toLowerCase()
toLowerCase(category) ==
    CASE category = "Data Access" -> "data access"
      [] category = "Sensitive Data" -> "sensitive data"
      [] category = "Permissions" -> "permissions"
      [] category = "Compliance" -> "compliance"
      [] category = "Data Retention" -> "data retention"
      [] category = "Security" -> "security"
      [] category = "Developer Reputation" -> "developer reputation"

\* lines 134-143: the app entity takes the analysis
withAssessment(app, analysis) ==
    [app EXCEPT !.riskLevel = analysis.riskLevel,
                !.riskScore = analysis.riskScore,
                !.complianceIssues =
                    [i \in 1..Len(analysis.riskFactors) |->
                        [severity |-> analysis.riskFactors[i].severity,
                         category |-> analysis.riskFactors[i].category,
                         recommendation |-> "Address "
                             \o toLowerCase(analysis.riskFactors[i].category)
                             \o " risk",
                         resolved |-> FALSE]],
                !.lastRiskAssessment = "Date"]

IsHighRiskAnalysis(a) == a.riskScore > 70

AppNames(analyses) == [i \in 1..Len(analyses) |-> analyses[i].appName]

generateRecommendations(analyses) ==
    LET highRiskApps == SelectSeq(analyses, IsHighRiskAnalysis)
    IN  IF Len(highRiskApps) > 0
        THEN <<[priority |-> "urgent", category |-> "High Risk Apps",
                description |-> ToString(Len(highRiskApps))
                    \o " apps pose high security risks",
                affectedApps |-> AppNames(highRiskApps)]>>
        ELSE <<>>

HasNoGdprGap(a) ==
    ~(\E i \in 1..Len(a.complianceGaps) : a.complianceGaps[i].regulation = "GDPR")

identifyComplianceGaps(analyses) ==
    LET appsWithoutPrivacyPolicy == SelectSeq(analyses, HasNoGdprGap)
    IN  IF Len(appsWithoutPrivacyPolicy) > 0
        THEN <<[regulation |-> "GDPR", requirement |-> "Data Processing Agreements",
                affectedApps |-> AppNames(appsWithoutPrivacyPolicy),
                riskLevel |-> "high"]>>
        ELSE <<>>

\* the value of 0 / 0, which Math.round returns unchanged: not a number,
\* written as an integer no score, count or mean of the model can equal
NaN == -1

RECURSIVE SumRiskScores(_)
SumRiskScores(analyses) ==
    IF analyses = <<>> THEN 0
    ELSE Head(analyses).riskScore + SumRiskScores(Tail(analyses))

\* Math.round(sum / count) of an integer sum: the nearest integer, a tie
\* going up; the quotient of two small integers is a tie only when it is one
\* exactly
mathRoundRatio(sum, count) == (2 * sum + count) \div (2 * count)

\* Math.round(analyses.reduce((sum, a) => sum + a.riskScore * w, 0) /
\* analyses.length), w in hundredths: the values the double arithmetic can
\* give.  Off a tie it is the nearest integer; at an exact tie the double sum
\* of the products lands on either side of it, depending on the scores and
\* their order, and either neighbour results.
breakdownComponent(analyses, weight) ==
    LET sum == weight * SumRiskScores(analyses)
        count == 100 * Len(analyses)
    IN  IF Len(analyses) = 0 THEN {NaN}
        ELSE IF (2 * sum + count) % (2 * count) = 0
        THEN {mathRoundRatio(sum, count) - 1, mathRoundRatio(sum, count)}
        ELSE {mathRoundRatio(sum, count)}

calculateRiskBreakdown(analyses) ==
    [dataAccess : breakdownComponent(analyses, riskWeights.dataAccess),
     permissions : breakdownComponent(analyses, riskWeights.permissions),
     compliance : breakdownComponent(analyses, riskWeights.compliance),
     security : breakdownComponent(analyses, riskWeights.security),
     reputation : breakdownComponent(analyses, riskWeights.reputation)]

IsHighTier(a) == a.riskLevel \in {"high", "critical"}
IsMediumTier(a) == a.riskLevel = "medium"
IsLowTier(a) == a.riskLevel = "low"

\* lines 123-186: the assessment entity built from the analyses of the apps
buildAssessmentHighOnly(merchantId, analyses, riskBreakdown) ==
    [merchantId |-> merchantId,
     totalApps |-> Len(analyses),
     highRiskApps |-> Len(SelectSeq(analyses, IsHighRiskAnalysis)),
     mediumRiskApps |-> Len(SelectSeq(analyses, IsMediumTier)),
     lowRiskApps |-> Len(SelectSeq(analyses, IsLowTier)),
     overallRiskScore |->
         IF Len(analyses) > 0
         THEN mathRoundRatio(SumRiskScores(analyses), Len(analyses))
         ELSE 0,
     riskBreakdown |-> riskBreakdown,
     recommendations |-> generateRecommendations(analyses),
     complianceGaps |-> identifyComplianceGaps(analyses)]

buildAssessment(merchantId, analyses, riskBreakdown) ==
    [merchantId |-> merchantId,
     totalApps |-> Len(analyses),
     highRiskApps |-> Len(SelectSeq(analyses, IsHighTier)),
     mediumRiskApps |-> Len(SelectSeq(analyses, IsMediumTier)),
     lowRiskApps |-> Len(SelectSeq(analyses, IsLowTier)),
     overallRiskScore |->
         IF Len(analyses) > 0
         THEN mathRoundRatio(SumRiskScores(analyses), Len(analyses))
         ELSE 0,
     riskBreakdown |-> riskBreakdown,
     recommendations |-> generateRecommendations(analyses),
     complianceGaps |-> identifyComplianceGaps(analyses)]

\* positions of the rows find({merchantId, isActive: true}) returns
RECURSIVE FindActive(_, _, _)
FindActive(repo, merchantId, i) ==
    IF i > Len(repo) THEN <<>>
    ELSE (IF repo[i].merchantId = merchantId /\ repo[i].isActive THEN <<i>> ELSE <<>>)
         \o FindActive(repo, merchantId, i + 1)

AppSaveError == "app save failed"
AssessmentSaveError == "assessment save failed"

\* performRiskAssessment(merchantId), called once.  failAt = 0: every write succeeds;
\* failAt = k <= number of apps: the save of the k-th app rejects;
\* failAt = number of apps + 1: the save of the assessment rejects.
PerformRiskAssessment(merchantId) ==
    /\ assessed = Undefined
    /\ LET found == FindActive(thirdPartyAppRepo, merchantId, 1)
           apps == [k \in 1..Len(found) |-> thirdPartyAppRepo[found[k]]]
           analyses == [k \in 1..Len(apps) |-> analyzeAppRisk(apps[k])]
       IN  \E failAt \in 0..(Len(apps) + 1),
              riskBreakdown \in calculateRiskBreakdown(analyses) :
              LET saved == IF failAt = 0 THEN Len(apps)
                           ELSE Min(failAt - 1, Len(apps))
                  assessment == buildAssessment(merchantId, analyses, riskBreakdown)
              IN  /\ thirdPartyAppRepo' =
                         [i \in 1..Len(thirdPartyAppRepo) |->
                             IF \E k \in 1..saved : found[k] = i
                             THEN withAssessment(thirdPartyAppRepo[i],
                                      analyzeAppRisk(thirdPartyAppRepo[i]))
                             ELSE thirdPartyAppRepo[i]]
                  /\ IF failAt = 0
                     THEN /\ riskAssessmentRepo' = Append(riskAssessmentRepo, assessment)
                          /\ assessed' = [merchantId |-> merchantId,
                                          table |-> thirdPartyAppRepo,
                                          found |-> found, apps |-> apps,
                                          analyses |-> analyses, saved |-> saved,
                                          result |-> assessment, raised |-> NoError]
                     ELSE /\ UNCHANGED riskAssessmentRepo
                          /\ assessed' = [merchantId |-> merchantId,
                                          table |-> thirdPartyAppRepo,
                                          found |-> found, apps |-> apps,
                                          analyses |-> analyses, saved |-> saved,
                                          result |-> Undefined,
                                          raised |-> IF failAt <= Len(apps)
                                                     THEN AppSaveError
                                                     ELSE AssessmentSaveError]
    /\ UNCHANGED notAssessVars

\* scanShopifyApps(merchantId): the merchant's rows are deleted, the apps
\* of the simulated scan are inserted
ScanShopifyApps(merchantId) ==
    /\ thirdPartyAppRepo' =
           SelectSeq(thirdPartyAppRepo, LAMBDA app : app.merchantId # merchantId)
               \o [k \in 1..Len(simulateShopifyAppScan) |->
                      processShopifyApp(merchantId, simulateShopifyAppScan[k])]
    /\ UNCHANGED <<riskAssessmentRepo, assessed>>
    /\ UNCHANGED notAssessVars

\* rows the table may hold before any scan: apps of the scan, an app with
\* nothing to report, an app with everything to report, a row whose jsonb
\* columns and developer are null, each active or deactivated, and an app of
\* the other tenant
InstalledApps ==
    LET m1Apps ==
            {processShopifyApp("m1", simulateShopifyAppScan[1]),
             processShopifyApp("m1", simulateShopifyAppScan[3]),
             AppRow("m1", "Catalog Viewer", "Acme",
                    [scopes |-> <<Scope("read", "products")>>], "read_only",
                    [dataTypes |-> <<"product_data">>, encryptionStatus |-> "encrypted",
                     privacyPolicyUrl |-> "https://acme.example/privacy",
                     dataRetentionPeriod |-> "30 days"]),
             AppRow("m1", "Store Sync", "Unknown Developer",
                    [scopes |-> <<Scope("write", "customers"), Scope("write", "orders"),
                                  Scope("write", "users"), Scope("write", "script_tags")>>],
                    "full_access",
                    [dataTypes |-> <<"personal_data", "payment_information">>,
                     encryptionStatus |-> "unknown", privacyPolicyUrl |-> "",
                     dataRetentionPeriod |-> "unknown"]),
             AppRow("m1", "Legacy Import", "", Undefined, "admin", Undefined)}
    IN  m1Apps
        \cup {[app EXCEPT !.isActive = FALSE] : app \in m1Apps}
        \cup {processShopifyApp("m2", simulateShopifyAppScan[2])}

\* one app of every combination of access level, data types, scopes,
\* privacy-policy URL, retention period, encryption status and developer
AnyApp ==
    {AppRow("m1", "Any App", developer, permissions, level, factors) :
        developer \in {"", "Unknown Developer", "Acme"},
        permissions \in {Undefined,
                         [scopes |-> <<>>],
                         [scopes |-> <<Scope("read", "products"),
                                       Scope("read", "orders")>>],
                         [scopes |-> <<Scope("read", "customers"),
                                       Scope("write", "customers"),
                                       Scope("read", "orders"),
                                       Scope("write", "orders")>>]},
        level \in {"read_only", "read_write", "full_access", "admin"},
        factors \in {Undefined}
            \cup [dataTypes : {<<>>, <<"product_data">>,
                               <<"personal_data", "contact_information">>},
                  encryptionStatus : {"unknown", "encrypted"},
                  privacyPolicyUrl : {"", "https://acme.example/privacy"},
                  dataRetentionPeriod : {"unknown", "30 days"}]}

IdleAssess ==
    /\ thirdPartyAppRepo = <<>>
    /\ riskAssessmentRepo = <<>>
    /\ assessed = Undefined

\* a table of installed apps, or the one app of any combination
InitAssess ==
    /\ thirdPartyAppRepo \in SeqsUpTo(InstalledApps, MaxApps)
                                \cup {<<app>> : app \in AnyApp}
    /\ riskAssessmentRepo = <<>>
    /\ assessed = Undefined

\* ------------------------------------------------------------------------
\* MonitoringService: the health check of one merchant
\* ------------------------------------------------------------------------
\* 1000 * 60 * 60 * 24 milliseconds, in the unit of the clock
HoursPerDay == 24
Days(n) == n * HoursPerDay

\* repository.count({where}) over a table kept as row -> number of rows
RECURSIVE SumCounts(_, _)
SumCounts(table, rows) ==
    IF rows = {} THEN 0
    ELSE LET row == CHOOSE x \in rows : TRUE
         IN  table[row] + SumCounts(table, rows \ {row})

\* auditRepository.findOne({where: {merchantId}, order: {createdAt: 'DESC'}})
LastAuditOf(merchantId) ==
    LET mine == {id \in DOMAIN auditRepo : auditRepo[id].merchant = merchantId}
    IN  IF mine = {} THEN Undefined
        ELSE auditRepo[CHOOSE id \in mine :
                 \A other \in mine : auditRepo[other].createdAt <= auditRepo[id].createdAt]

\* Math.floor((Date.now() - createdAt) / day)
daysSince(createdAt) == (now - createdAt) \div HoursPerDay

\* lines 140-162; no audit gives Infinity, which is greater than 90
auditIssues(lastAudit) ==
    IF lastAudit = Undefined \/ daysSince(lastAudit.createdAt) > 90
    THEN [issues |-> <<[type |-> "audit_overdue", severity |-> "high",
                        description |-> "Compliance audit is overdue"]>>,
          penalty |-> 20]
    ELSE IF daysSince(lastAudit.createdAt) > 60
    THEN [issues |-> <<[type |-> "audit_due_soon", severity |-> "medium",
                        description |-> "Compliance audit due soon"]>>,
          penalty |-> 10]
    ELSE [issues |-> <<>>, penalty |-> 0]

\* new Date(Date.now() - 30 * 24 * 60 * 60 * 1000)
thirtyDaysAgo == now - Days(30)

\* where: {merchantId}; getMonitoringMetrics leaves the merchant out of the
\* clause when it is given none
InWhereClause(rowMerchantId, merchantId) ==
    merchantId = Absent \/ rowMerchantId = merchantId

\* dsrRepository.count({where: {merchantId, status: 'pending'}})
countPending(merchantId) ==
    Cardinality({id \in DOMAIN dsrRepo :
        /\ InWhereClause(dsrRepo[id].merchantId, merchantId)
        /\ dsrRepo[id].status = "pending"})

\* ... with createdAt: LessThan(thirty days ago)
countOverdue(merchantId) ==
    Cardinality({id \in DOMAIN dsrRepo :
        /\ InWhereClause(dsrRepo[id].merchantId, merchantId)
        /\ dsrRepo[id].status = "pending"
        /\ dsrRepo[id].createdAt < thirtyDaysAgo})

\* consentRepository.count({where: {merchantId, withdrawnAt: MoreThan(...)}});
\* a null withdrawn_at satisfies no comparison
countWithdrawn(merchantId) ==
    SumCounts(consentRepo, {row \in DOMAIN consentRepo :
        /\ InWhereClause(row.merchantId, merchantId)
        /\ row.withdrawnAt # Undefined
        /\ row.withdrawnAt[1] > thirtyDaysAgo})

\* breachRepository.count({where: {merchantId, createdAt: MoreThan(...)}})
countBreaches(merchantId) ==
    SumCounts(breachRepo, {row \in DOMAIN breachRepo :
        InWhereClause(row.merchantId, merchantId) /\ row.createdAt > thirtyDaysAgo})

\* lines 165-195
dsrIssuesBothApply(merchantId) ==
    LET pendingDSRs == countPending(merchantId)
        overdueCount == countOverdue(merchantId)
        overdue == IF overdueCount > 0
                   THEN [issues |-> <<[type |-> "overdue_dsr", severity |-> "critical",
                               description |-> ToString(overdueCount)
                                   \o " data subject requests are overdue"]>>,
                         penalty |-> 30]
                   ELSE [issues |-> <<>>, penalty |-> 0]
        backlog == IF pendingDSRs > 5
                   THEN [issues |-> <<[type |-> "high_pending_dsr", severity |-> "high",
                               description |-> ToString(pendingDSRs)
                                   \o " pending data subject requests"]>>,
                         penalty |-> 15]
                   ELSE [issues |-> <<>>, penalty |-> 0]
    IN  [issues |-> overdue.issues \o backlog.issues,
         penalty |-> overdue.penalty + backlog.penalty]

dsrIssues(merchantId) ==
    LET pendingDSRs == countPending(merchantId)
        overdueCount == countOverdue(merchantId)
    IN  IF pendingDSRs > 0 /\ overdueCount > 0
        THEN [issues |-> <<[type |-> "overdue_dsr", severity |-> "critical",
                            description |-> ToString(overdueCount)
                                \o " data subject requests are overdue"]>>,
              penalty |-> 30]
        ELSE IF pendingDSRs > 0 /\ pendingDSRs > 5
        THEN [issues |-> <<[type |-> "high_pending_dsr", severity |-> "high",
                            description |-> ToString(pendingDSRs)
                                \o " pending data subject requests"]>>,
              penalty |-> 15]
        ELSE [issues |-> <<>>, penalty |-> 0]

\* lines 198-214
withdrawalIssues(merchantId) ==
    LET recentWithdrawals == countWithdrawn(merchantId)
    IN  IF recentWithdrawals > 10
        THEN [issues |-> <<[type |-> "high_consent_withdrawals", severity |-> "medium",
                            description |-> ToString(recentWithdrawals)
                                \o " consent withdrawals in the last 30 days"]>>,
              penalty |-> 15]
        ELSE [issues |-> <<>>, penalty |-> 0]

\* lines 217-233
breachIssues(merchantId) ==
    LET recentBreaches == countBreaches(merchantId)
    IN  IF recentBreaches > 0
        THEN [issues |-> <<[type |-> "recent_breaches", severity |-> "critical",
                            description |-> ToString(recentBreaches)
                                \o " breach incidents in the last 30 days"]>>,
              penalty |-> 40]
        ELSE [issues |-> <<>>, penalty |-> 0]

\* lines 131-248: the value returned for a merchant that exists
healthCheckOf(merchantId) ==
    LET lastAudit == LastAuditOf(merchantId)
        a == auditIssues(lastAudit)
        d == dsrIssues(merchantId)
        w == withdrawalIssues(merchantId)
        b == breachIssues(merchantId)
    IN  [merchantId |-> merchantId,
         overallScore |-> Max(0, 100 - a.penalty - d.penalty - w.penalty - b.penalty),
         issues |-> a.issues \o d.issues \o w.issues \o b.issues,
         lastAuditDate |-> IF lastAudit = Undefined THEN Undefined
                           ELSE lastAudit.createdAt,
         nextAuditDue |-> IF lastAudit = Undefined THEN now
                          ELSE lastAudit.createdAt + Days(90)]

HealthQueryError == "health check query failed"

\* performComplianceHealthCheck(merchantId), called once; any of its queries
\* may reject
PerformComplianceHealthCheck(merchantId) ==
    /\ health = Undefined
    /\ \/ /\ merchantId \notin DOMAIN merchantRepo
          /\ health' = [merchantId |-> merchantId, result |-> Undefined,
                        raised |-> NotFoundError(merchantId)]
       \/ /\ merchantId \in DOMAIN merchantRepo
          /\ health' = [merchantId |-> merchantId,
                        result |-> healthCheckOf(merchantId), raised |-> NoError]
       \/ health' = [merchantId |-> merchantId, result |-> Undefined,
                     raised |-> HealthQueryError]
    /\ UNCHANGED <<now, dsrRepo, consentRepo, breachRepo, alertRepo, alertOps,
                   alertCall, requestOps, metrics>>
    /\ UNCHANGED notMonitorVars

\* ------------------------------------------------------------------------
\* AlertService
\* ------------------------------------------------------------------------
AlertStatuses == {"active", "acknowledged", "resolved", "dismissed"}
AlertSeverities == {"low", "medium", "high", "critical"}

\* the (type, severity) pairs alerts are created with
AlertKinds ==
    {[type |-> "compliance_violation", severity |-> "high"],
     [type |-> "data_breach", severity |-> "critical"],
     [type |-> "policy_update_required", severity |-> "medium"],
     [type |-> "system_error", severity |-> "low"]}

\* the callers of the acknowledge and resolve endpoints
Actors == {"alice"}

AlertSaveError == "alert save failed"
AlertNotFoundError(id) == "Alert with ID " \o ToString(id) \o " not found"

\* lines 64-67: the row the repository creates; the nullable columns are null
NewAlert(dto) ==
    [merchantId |-> dto.merchantId, type |-> dto.type, severity |-> dto.severity,
     status |-> "active",
     acknowledgedBy |-> Absent, acknowledgedAt |-> Undefined,
     resolvedBy |-> Absent, resolvedAt |-> Undefined]

\* a || 'system'
OrSystem(actor) == IF actor = Absent \/ actor = "" THEN "system" ELSE actor

\* a property the dto carries overwrites the alert's; one it lacks, or
\* carries as undefined, leaves the column as it is
Assign(old, new) == IF new = Absent THEN old ELSE new

\* lines 157-170: the stamps, then Object.assign(alert, updateAlertDto)
updateAlert(alert, dto) ==
    LET stampAcknowledged == dto.status = "acknowledged"
                                 /\ alert.acknowledgedAt = Undefined
        stampResolved == dto.status = "resolved" /\ alert.resolvedAt = Undefined
        acknowledgedBy == IF stampAcknowledged THEN OrSystem(dto.acknowledgedBy)
                          ELSE dto.acknowledgedBy
        resolvedBy == IF stampResolved THEN OrSystem(dto.resolvedBy)
                      ELSE dto.resolvedBy
    IN  [alert EXCEPT
            !.acknowledgedAt = IF stampAcknowledged THEN Some(now) ELSE @,
            !.resolvedAt = IF stampResolved THEN Some(now) ELSE @,
            !.status = Assign(@, dto.status),
            !.acknowledgedBy = Assign(@, acknowledgedBy),
            !.resolvedBy = Assign(@, resolvedBy)]

UpdateAlertDtos ==
    [status : AlertStatuses \cup {Absent},
     acknowledgedBy : Actors \cup {Absent},
     resolvedBy : Actors \cup {Absent}]

\* createAlert(dto) without the lookup of lines 54-62
CreateAlertNoLookup(merchantId, kind) ==
    /\ Len(alertRepo) < MaxAlerts
    /\ alertOps < MaxAlertOps
    /\ alertOps' = alertOps + 1
    /\ \/ /\ alertRepo' = Append(alertRepo,
                 NewAlert([merchantId |-> merchantId, type |-> kind.type,
                           severity |-> kind.severity]))
          /\ alertCall' = [raised |-> NoError]
       \/ /\ alertCall' = [raised |-> AlertSaveError]
          /\ UNCHANGED alertRepo
    /\ UNCHANGED <<now, dsrRepo, consentRepo, breachRepo, requestOps, health, metrics>>
    /\ UNCHANGED notMonitorVars

\* createAlert(dto): the merchant is looked up, the alert is saved as active
CreateAlert(merchantId, kind) ==
    /\ Len(alertRepo) < MaxAlerts
    /\ alertOps < MaxAlertOps
    /\ alertOps' = alertOps + 1
    /\ \/ /\ merchantId \in DOMAIN merchantRepo
          /\ alertRepo' = Append(alertRepo,
                 NewAlert([merchantId |-> merchantId, type |-> kind.type,
                           severity |-> kind.severity]))
          /\ alertCall' = [raised |-> NoError]
       \/ /\ merchantId \notin DOMAIN merchantRepo
          /\ alertCall' = [raised |-> NotFoundError(merchantId)]
          /\ UNCHANGED alertRepo
       \/ /\ alertCall' = [raised |-> AlertSaveError]
          /\ UNCHANGED alertRepo
    /\ UNCHANGED <<now, dsrRepo, consentRepo, breachRepo, requestOps, health, metrics>>
    /\ UNCHANGED notMonitorVars

\* lines 151-177: getAlertById, the update, the save
UpdateAlert(id, dto) ==
    /\ alertOps < MaxAlertOps
    /\ alertOps' = alertOps + 1
    /\ \/ /\ id \in 1..Len(alertRepo)
          /\ alertRepo' = [alertRepo EXCEPT ![id] = updateAlert(@, dto)]
          /\ alertCall' = [raised |-> NoError]
       \/ /\ id \notin 1..Len(alertRepo)
          /\ alertCall' = [raised |-> AlertNotFoundError(id)]
          /\ UNCHANGED alertRepo
       \/ /\ id \in 1..Len(alertRepo)
          /\ alertCall' = [raised |-> AlertSaveError]
          /\ UNCHANGED alertRepo
    /\ UNCHANGED <<now, dsrRepo, consentRepo, breachRepo, requestOps, health, metrics>>
    /\ UNCHANGED notMonitorVars

\* lines 179-184
AcknowledgeAlert(id, acknowledgedBy) ==
    UpdateAlert(id,
        [status |-> "acknowledged", acknowledgedBy |-> acknowledgedBy,
         resolvedBy |-> Absent])

\* lines 186-196
ResolveAlert(id, resolvedBy) ==
    UpdateAlert(id,
        [status |-> "resolved", acknowledgedBy |-> Absent,
         resolvedBy |-> resolvedBy])

\* lines 198-202
DismissAlert(id) ==
    UpdateAlert(id,
        [status |-> "dismissed", acknowledgedBy |-> Absent,
         resolvedBy |-> Absent])

\* lines 204-269, for the alerts of one merchant or of all
countByStatus(alerts, status) == Len(SelectSeq(alerts, LAMBDA a : a.status = status))
countBySeverity(alerts, severity) ==
    Len(SelectSeq(alerts, LAMBDA a : a.severity = severity))

getAlertStats(merchantId) ==
    LET alerts == IF merchantId = Absent THEN alertRepo
                  ELSE SelectSeq(alertRepo, LAMBDA a : a.merchantId = merchantId)
    IN  [total |-> Len(alerts),
         active |-> countByStatus(alerts, "active"),
         acknowledged |-> countByStatus(alerts, "acknowledged"),
         resolved |-> countByStatus(alerts, "resolved"),
         dismissed |-> countByStatus(alerts, "dismissed"),
         bySeverity |-> [sev \in AlertSeverities |-> countBySeverity(alerts, sev)]]

\* ------------------------------------------------------------------------
\* MonitoringService: the metrics of one merchant or of the fleet
\* ------------------------------------------------------------------------
\* lines 348-375
calculateComplianceScore(m) ==
    Max(0, Min(100, 100 - m.pendingRequests * 2
                        - m.withdrawnConsents * 1
                        - m.breachIncidents * 10
                        - m.alertStats.bySeverity["critical"] * 15
                        - m.alertStats.bySeverity["high"] * 10
                        - m.alertStats.bySeverity["medium"] * 5
                        - m.alertStats.bySeverity["low"] * 1))

\* lines 59-118
metricsOf(merchantId) ==
    LET totalMerchants == IF merchantId # Absent THEN 1
                          ELSE Cardinality(DOMAIN merchantRepo)
        activeAudits == Cardinality({id \in DOMAIN auditRepo :
                            /\ InWhereClause(auditRepo[id].merchant, merchantId)
                            /\ auditRepo[id].status = "in_progress"})
        pendingRequests == countPending(merchantId)
        withdrawnConsents == countWithdrawn(merchantId)
        breachIncidents == countBreaches(merchantId)
        alertStats == getAlertStats(merchantId)
    IN  [totalMerchants |-> totalMerchants,
         activeAudits |-> activeAudits,
         pendingRequests |-> pendingRequests,
         withdrawnConsents |-> withdrawnConsents,
         breachIncidents |-> breachIncidents,
         complianceScore |-> calculateComplianceScore(
             [pendingRequests |-> pendingRequests,
              withdrawnConsents |-> withdrawnConsents,
              breachIncidents |-> breachIncidents,
              alertStats |-> alertStats]),
         alertCounts |-> [active |-> alertStats.active,
                          critical |-> alertStats.bySeverity["critical"],
                          high |-> alertStats.bySeverity["high"],
                          medium |-> alertStats.bySeverity["medium"],
                          low |-> alertStats.bySeverity["low"]]]

MetricsQueryError == "metrics query failed"

\* getMonitoringMetrics(merchantId?), called once; any query of the
\* Promise.all may reject
GetMonitoringMetrics(merchantId) ==
    /\ metrics = Undefined
    /\ \/ metrics' = [merchantId |-> merchantId, result |-> metricsOf(merchantId),
                      raised |-> NoError]
       \/ metrics' = [merchantId |-> merchantId, result |-> Undefined,
                      raised |-> MetricsQueryError]
    /\ UNCHANGED <<now, dsrRepo, consentRepo, breachRepo, alertRepo, alertOps,
                   alertCall, requestOps, health>>
    /\ UNCHANGED notMonitorVars

\* ------------------------------------------------------------------------
\* DataSubjectRightsService: the writers of data_subject_requests
\* ------------------------------------------------------------------------
RequestTypes == {"access", "erasure", "portability"}
RequestStatuses == {"pending", "processing", "completed", "rejected"}

RequestNotFoundError == "Data subject request not found"

\* lines 285-299: the row createRequest builds; the nullable columns are null
NewRequest(merchantId, requestType) ==
    [merchantId |-> merchantId, requestType |-> requestType, status |-> "pending",
     createdAt |-> now, responseData |-> Undefined, completedAt |-> Undefined]

\* createRequest(dto); a merchant that does not exist is rejected
CreateRequest(merchantId, requestType) ==
    /\ requestOps < MaxRequestOps
    /\ requestOps' = requestOps + 1
    /\ IF merchantId \in DOMAIN merchantRepo
       THEN dsrRepo' = Append(dsrRepo, NewRequest(merchantId, requestType))
       ELSE UNCHANGED dsrRepo
    /\ UNCHANGED <<now, consentRepo, breachRepo, alertRepo, alertOps, alertCall,
                   health, metrics>>
    /\ UNCHANGED notMonitorVars

\* lines 336-341: what updateRequestStatus assigns to the request it loaded
updateRequestStatus(request, updateDto) ==
    [request EXCEPT
        !.status = updateDto.status,
        !.responseData = IF updateDto.responseData # Undefined
                         THEN updateDto.responseData ELSE @,
        !.completedAt = IF updateDto.status = "completed"
                             /\ updateDto.completedAt # Undefined
                         THEN updateDto.completedAt ELSE @]

\* the dto {status}
StatusOnly(status) ==
    [status |-> status, responseData |-> Undefined, completedAt |-> Undefined]

\* updateRequestStatus(requestId, {status}) called from the controller; a
\* request that does not exist is rejected
UpdateRequestStatus(requestId, status) ==
    /\ requestOps < MaxRequestOps
    /\ requestOps' = requestOps + 1
    /\ IF requestId \in DOMAIN dsrRepo
       THEN dsrRepo' = [dsrRepo EXCEPT
                           ![requestId] = updateRequestStatus(@, StatusOnly(status))]
       ELSE UNCHANGED dsrRepo
    /\ UNCHANGED <<now, consentRepo, breachRepo, alertRepo, alertOps, alertCall,
                   health, metrics>>
    /\ UNCHANGED notMonitorVars

\* ------------------------------------------------------------------------
\* DataSubjectRightsService: processing a request, one action per await
\* ------------------------------------------------------------------------
NotAccessError == "Request is not an access request"
NotErasureError == "Request is not an erasure request"
NotPortabilityError == "Request is not a portability request"

\* the error a process operation raises for a request of another type
WrongTypeError(requestType) ==
    IF requestType = "access" THEN NotAccessError
    ELSE IF requestType = "erasure" THEN NotErasureError
    ELSE NotPortabilityError

\* getRequestById alone, with requests of every type let through
uncheckedRequest(op, requestId, requestType, next) ==
    IF requestId \notin DOMAIN dsrRepo
    THEN [op |-> op, requestId |-> requestId, pc |-> "rejected",
          request |-> Undefined, raised |-> RequestNotFoundError,
          returned |-> Undefined]
    ELSE [op |-> op, requestId |-> requestId, pc |-> next,
          request |-> dsrRepo[requestId], raised |-> NoError,
          returned |-> Undefined]

\* getRequestById and the type check that open each process operation: the
\* call as it stands after them
checkedRequest(op, requestId, requestType, next) ==
    IF requestId \notin DOMAIN dsrRepo
    THEN [op |-> op, requestId |-> requestId, pc |-> "rejected",
          request |-> Undefined, raised |-> RequestNotFoundError,
          returned |-> Undefined]
    ELSE IF dsrRepo[requestId].requestType # requestType
    THEN [op |-> op, requestId |-> requestId, pc |-> "rejected",
          request |-> dsrRepo[requestId], raised |-> WrongTypeError(requestType),
          returned |-> Undefined]
    ELSE [op |-> op, requestId |-> requestId, pc |-> next,
          request |-> dsrRepo[requestId], raised |-> NoError,
          returned |-> Undefined]

DsrFrame ==
    /\ UNCHANGED <<now, consentRepo, breachRepo, alertRepo, alertOps, alertCall,
                   requestOps, health, metrics, daily>>
    /\ UNCHANGED <<auditVars, gapVars, riskVars, assessVars>>

\* processAccessRequest(requestId), lines 356-360
ProcessAccessRequest(requestId) ==
    /\ dsrCall = Undefined
    /\ dsrCall' = checkedRequest("access", requestId, "access", "markProcessing")
    /\ UNCHANGED dsrRepo
    /\ DsrFrame

\* processErasureRequest(requestId), lines 436-440
ProcessErasureRequest(requestId) ==
    /\ dsrCall = Undefined
    /\ dsrCall' = checkedRequest("erasure", requestId, "erasure", "markProcessing")
    /\ UNCHANGED dsrRepo
    /\ DsrFrame

\* processPortabilityRequest(requestId), lines 473-477
ProcessPortabilityRequest(requestId) ==
    /\ dsrCall = Undefined
    /\ dsrCall' = checkedRequest("portability", requestId, "portability",
                                 "processAccessRequest")
    /\ UNCHANGED dsrRepo
    /\ DsrFrame

\* line 480: processPortabilityRequest calls processAccessRequest(requestId),
\* which loads the request and checks its type again (lines 356-360)
PortabilityProcessAccess ==
    /\ dsrCall # Undefined
    /\ dsrCall.pc = "processAccessRequest"
    /\ dsrCall' = [checkedRequest("portability", dsrCall.requestId, "access",
                                  "markProcessing")
                      EXCEPT !.request = dsrCall.request]
    /\ UNCHANGED dsrRepo
    /\ DsrFrame

\* lines 363 and 443: updateRequestStatus(requestId, {status: 'processing'})
MarkProcessing ==
    /\ dsrCall # Undefined
    /\ dsrCall.pc = "markProcessing"
    /\ dsrRepo' = [dsrRepo EXCEPT ![dsrCall.requestId] =
                       updateRequestStatus(@, StatusOnly("processing"))]
    /\ dsrCall' = [dsrCall EXCEPT !.pc = "complete"]
    /\ DsrFrame

\* lines 366-420: the export of an access request
exportResultOf(request) ==
    [personalData |-> [merchantId |-> request.merchantId, orders |-> 1],
     exportedAt |-> now]

\* lines 446-461: the record of an erasure
deletionResultOf(request) ==
    [deletedRecords |-> [customerProfile |-> 1, orderHistory |-> 5,
                         marketingPreferences |-> 1, analyticsData |-> 150],
     deletionDate |-> now]

\* lines 483-499: Buffer.from(JSON.stringify(portableData, null, 2), 'utf-8')
bufferOf(exportResult) ==
    <<"application/json", [exportDate |-> now, data |-> exportResult.personalData]>>

\* lines 423-431 and 464-468: the collected result is stored with status
\* completed and the completion time, then the operation returns
CompleteRequest ==
    /\ dsrCall # Undefined
    /\ dsrCall.pc = "complete"
    /\ LET result == IF dsrCall.op = "erasure" THEN deletionResultOf(dsrCall.request)
                     ELSE exportResultOf(dsrCall.request)
       IN  /\ dsrRepo' = [dsrRepo EXCEPT ![dsrCall.requestId] =
                   updateRequestStatus(@, [status |-> "completed",
                                           responseData |-> result,
                                           completedAt |-> Some(now)])]
           /\ dsrCall' = [dsrCall EXCEPT
                   !.pc = "returned",
                   !.returned = IF dsrCall.op = "access" THEN result
                                ELSE IF dsrCall.op = "portability" THEN bufferOf(result)
                                ELSE Undefined]
    /\ DsrFrame

\* ------------------------------------------------------------------------
\* MonitoringService.performDailyHealthChecks, one action per await
\* ------------------------------------------------------------------------
MerchantQueryError == "merchant query failed"

\* merchantRepository.find() has no ORDER BY: the rows in any order
Orderings(S) ==
    {list \in [1..Cardinality(S) -> S] : \A m \in S : \E i \in DOMAIN list : list[i] = m}

\* lines 308-319: the alert created for an issue
AlertOfIssue(merchantId, issue) ==
    NewAlert([merchantId |-> merchantId, type |-> "compliance_violation",
              severity |-> issue.severity])

\* the alert created for an issue of any severity
ShouldAlertAlways(issue) == TRUE

\* line 307
ShouldAlert(issue) == issue.severity = "critical"

DailyFrame ==
    /\ UNCHANGED <<now, dsrRepo, consentRepo, breachRepo, alertOps, alertCall,
                   requestOps, health, metrics, dsrCall>>
    /\ UNCHANGED <<auditVars, gapVars, riskVars, assessVars>>

\* the error of one merchant logged and the loop going on with the next
LoggedAndContinued(run, message) ==
    [run EXCEPT !.logged = message,
                !.issues = <<>>,
                !.pc = IF run.index >= Len(run.list) THEN "done" ELSE "healthCheck",
                !.index = IF run.index >= Len(run.list) THEN @ ELSE @ + 1]

\* lines 330-336: the catch block logs the error and the run ends
Logged(run, message) == [run EXCEPT !.pc = "done", !.logged = message]

\* lines 295-298: the merchants are loaded
DailyBegin ==
    /\ daily = Undefined
    /\ LET started(list) ==
               [pc |-> IF list = <<>> THEN "done" ELSE "healthCheck",
                list |-> list, index |-> 1, issues |-> <<>>,
                results |-> <<>>, alerts |-> <<>>, logged |-> NoError]
       IN  \/ \E list \in Orderings(DOMAIN merchantRepo) : daily' = started(list)
           \/ daily' = Logged(started(<<>>), MerchantQueryError)
    /\ UNCHANGED alertRepo
    /\ DailyFrame

\* lines 300-303: the health check of the merchant the loop is at
DailyHealthCheck ==
    /\ daily # Undefined
    /\ daily.pc = "healthCheck"
    /\ LET healthCheck == healthCheckOf(daily.list[daily.index])
       IN  \/ daily' = [daily EXCEPT !.pc = "issues",
                                     !.issues = healthCheck.issues,
                                     !.results = Append(@, healthCheck)]
           \/ daily' = Logged(daily, HealthQueryError)
    /\ UNCHANGED alertRepo
    /\ DailyFrame

\* lines 306-321: the next issue of the merchant; a critical one is awaited
\* as an alert
DailyIssue ==
    /\ daily # Undefined
    /\ daily.pc = "issues"
    /\ daily.issues # <<>>
    /\ IF ShouldAlert(Head(daily.issues))
       THEN \/ /\ alertRepo' = Append(alertRepo,
                       AlertOfIssue(daily.list[daily.index], Head(daily.issues)))
               /\ daily' = [daily EXCEPT !.issues = Tail(@),
                                         !.alerts = Append(@, Len(alertRepo) + 1)]
            \/ /\ daily' = Logged(daily, AlertSaveError)
               /\ UNCHANGED alertRepo
       ELSE /\ daily' = [daily EXCEPT !.issues = Tail(@)]
            /\ UNCHANGED alertRepo
    /\ DailyFrame

\* the loop goes to the next merchant, or ends after the last (lines 324-326)
DailyNextMerchant ==
    /\ daily # Undefined
    /\ daily.pc = "issues"
    /\ daily.issues = <<>>
    /\ daily' = [daily EXCEPT
                    !.pc = IF daily.index = Len(daily.list) THEN "done" ELSE "healthCheck",
                    !.index = IF daily.index = Len(daily.list) THEN @ ELSE @ + 1]
    /\ UNCHANGED alertRepo
    /\ DailyFrame

\* ------------------------------------------------------------------------
\* Initial states of the monitoring tables
\* ------------------------------------------------------------------------
\* a table from the number of rows of each kind
TableOf(counts) == [row \in {x \in DOMAIN counts : counts[x] > 0} |-> counts[row]]

\* an access request of the merchant, not answered yet
Request(merchantId, status, createdAt) ==
    [merchantId |-> merchantId, requestType |-> "access", status |-> status,
     createdAt |-> createdAt, responseData |-> Undefined, completedAt |-> Undefined]
\* n rows like row
Rows(row, n) == [id \in 1..n |-> row]
IdleJobs == dsrCall = Undefined /\ daily = Undefined
Consent(merchantId, withdrawnAt) == [merchantId |-> merchantId, withdrawnAt |-> withdrawnAt]
Breach(merchantId, createdAt) == [merchantId |-> merchantId, createdAt |-> createdAt]

IdleMonitor ==
    /\ now = 0
    /\ dsrRepo = <<>>
    /\ consentRepo = <<>>
    /\ breachRepo = <<>>
    /\ alertRepo = <<>>
    /\ alertOps = 0
    /\ alertCall = Undefined
    /\ requestOps = 0
    /\ health = Undefined
    /\ metrics = Undefined
    /\ IdleJobs

\* the audit a run completed at createdAt on a merchant with no policy and no
\* data collection point
PastAudit(merchantId, createdAt) ==
    LET checks == <<checkPrivacyPolicy(<<>>), checkDataMapping(<<>>),
                    checkLegalBasis(<<>>), checkRetentionPolicies(<<>>)>>
        score == 100 - checks[1].deduction - checks[2].deduction
                     - checks[3].deduction - checks[4].deduction
    IN  markCompleted([merchant |-> merchantId, auditType |-> "comprehensive",
                       status |-> "processing", createdAt |-> createdAt],
                      [score |-> score, status |-> determineComplianceStatus(score),
                       findings |-> checks[1].findings \o checks[2].findings,
                       recommendations |-> checks[1].recommendations
                                               \o checks[2].recommendations])

\* ages of the last audit on both sides of the 60-day and the 90-day limits
AuditAges == {0, Days(60) - 1, Days(60), Days(61) - 1, Days(61),
              Days(91) - 1, Days(91)}

\* m1 has no audit, one audit or two audits, the older of them 91 days old;
\* m2 has an audit of today
AuditTable(ids, age) ==
    [id \in ids \cup {"h3"} |->
        IF id = "h1" THEN PastAudit("m1", now - age)
        ELSE IF id = "h2" THEN PastAudit("m1", now - Days(91))
        ELSE PastAudit("m2", now)]

InitHealthAudits ==
    auditRepo \in {AuditTable(ids, age) : ids \in SUBSET {"h1", "h2"}, age \in AuditAges}

\* m1 has pending requests of the last day, of exactly 30 days ago and of
\* before that, withdrawals of the last day and breaches of the last day; a
\* completed old request, a withdrawal and a breach of exactly 30 days ago, a
\* consent never withdrawn and the rows of m2 are there to be left out
InitHealthTables ==
    /\ now = 0
    /\ \E recent \in 0..MaxPendingRequests, atCutoff \in {0, 1}, overdue \in {0, 1} :
          dsrRepo = Rows(Request("m1", "pending", now - Days(1)), recent)
              \o Rows(Request("m1", "pending", now - Days(30)), atCutoff)
              \o Rows(Request("m1", "pending", now - Days(30) - 1), overdue)
              \o Rows(Request("m1", "completed", now - Days(30) - 1), 1)
              \o Rows(Request("m2", "pending", now - Days(30) - 1), 1)
    /\ \E recent \in 0..MaxWithdrawnConsents :
          consentRepo = TableOf(
              (Consent("m1", Some(now - Days(1))) :> recent)
              @@ (Consent("m1", Some(now - Days(30))) :> 1)
              @@ (Consent("m1", Undefined) :> 1)
              @@ (Consent("m2", Some(now - Days(1))) :> MaxWithdrawnConsents))
    /\ \E recent \in 0..MaxBreaches :
          breachRepo = TableOf(
              (Breach("m1", now - Days(1)) :> recent)
              @@ (Breach("m1", now - Days(30)) :> 1)
              @@ (Breach("m2", now - Days(1)) :> 1))
    /\ alertRepo = <<>>
    /\ alertOps = 0
    /\ alertCall = Undefined
    /\ requestOps = 0
    /\ health = Undefined
    /\ metrics = Undefined
    /\ IdleJobs

\* m1 has none or the most of the pending requests, recent withdrawals and
\* recent breaches; m2 has the most of each
InitFleetTables ==
    /\ now = 0
    /\ \E n \in {0, MaxPendingRequests} :
          dsrRepo = Rows(Request("m1", "pending", now - Days(1)), n)
              \o Rows(Request("m2", "pending", now - Days(1)), MaxPendingRequests)
              \o Rows(Request("m1", "completed", now - Days(1)), 1)
    /\ \E n \in {0, MaxWithdrawnConsents} :
          consentRepo = TableOf(
              (Consent("m1", Some(now - Days(1))) :> n)
              @@ (Consent("m2", Some(now - Days(1))) :> MaxWithdrawnConsents)
              @@ (Consent("m1", Some(now - Days(30))) :> 1))
    /\ \E n \in {0, MaxBreaches} :
          breachRepo = TableOf(
              (Breach("m1", now - Days(1)) :> n)
              @@ (Breach("m2", now - Days(1)) :> MaxBreaches)
              @@ (Breach("m1", now - Days(30)) :> 1))
    /\ alertRepo = <<>>
    /\ alertOps = 0
    /\ alertCall = Undefined
    /\ requestOps = 0
    /\ health = Undefined
    /\ metrics = Undefined
    /\ IdleJobs

\* ------------------------------------------------------------------------
\* Specifications
\* ------------------------------------------------------------------------
vars == <<auditVars, gapVars, riskVars, assessVars, monitorVars, jobVars>>

IdleAudit ==
    /\ InitAudit
    /\ policyRepo = [m \in ExistingMerchants |-> <<>>]
    /\ dataPointRepo = [m \in ExistingMerchants |-> <<>>]

Init == InitAudit /\ IdleGap /\ IdleRisk /\ IdleAssess /\ IdleMonitor

\* one call of runComplianceAudit
Next == NextAuditOf({"a1"})

\* the audit pipeline
Spec == Init /\ [][Next]_vars

\* two calls of runComplianceAudit in flight together, on a database with no
\* policy and at most one data point per merchant
InitConcurrentStore ==
    /\ InitAudit
    /\ policyRepo = [m \in ExistingMerchants |-> <<>>]
    /\ \A m \in ExistingMerchants : Len(dataPointRepo[m]) <= 1

InitConcurrent == InitConcurrentStore /\ IdleGap /\ IdleRisk /\ IdleAssess /\ IdleMonitor

NextConcurrent == NextAuditOf(Runs)

SpecConcurrent == InitConcurrent /\ [][NextConcurrent]_vars

NextGap ==
    \/ \E k \in 1..NumRuleKinds : NextApplicableRule(k)
    \/ PerformGapAnalysis

\* the gap analysis over every merchant profile and ordered rule list
InitGapAnalysis == IdleAudit /\ InitGap /\ IdleRisk /\ IdleAssess /\ IdleMonitor

SpecGap == InitGapAnalysis /\ [][NextGap]_vars

NextRisk == AssignRiskLevel

\* the risk level of every score
InitRiskLevel == IdleAudit /\ IdleGap /\ InitRisk /\ IdleAssess /\ IdleMonitor

\* audit variables of a database with two tenants, no run in flight
TenantStore ==
    /\ merchantRepo = [m \in Tenants |->
                          [complianceScore |-> 0, complianceStatus |-> "pending"]]
    /\ policyRepo = [m \in Tenants |-> <<>>]
    /\ dataPointRepo = [m \in Tenants |-> <<>>]
    /\ storeWrites = 0
    /\ pc = [r \in Runs |-> "idle"]
    /\ runMerchant = [r \in Runs |-> ""]
    /\ audit = [r \in Runs |-> Undefined]
    /\ findings = [r \in Runs |-> <<>>]
    /\ recommendations = [r \in Runs |-> <<>>]
    /\ totalScore = [r \in Runs |-> 100]
    /\ auditResult = [r \in Runs |-> Undefined]
    /\ caught = [r \in Runs |-> NoError]
    /\ raised = [r \in Runs |-> NoError]
    /\ seen = [r \in Runs |-> Undefined]

NoAudits == auditRepo = <<>>

IdleTenants == TenantStore /\ NoAudits

NextAssess ==
    \/ \E m \in Tenants : PerformRiskAssessment(m)
    \/ \E m \in Tenants : ScanShopifyApps(m)

\* the third-party app risk model
InitAssessment == IdleTenants /\ IdleGap /\ IdleRisk /\ InitAssess /\ IdleMonitor

SpecAssess == InitAssessment /\ [][NextAssess]_vars

SpecRisk == InitRiskLevel /\ [][NextRisk]_vars

\* an id no merchant row has
UnknownMerchant == "m0"

NextDaily ==
    \/ DailyBegin
    \/ DailyHealthCheck
    \/ DailyIssue
    \/ DailyNextMerchant

\* each merchant has, or has not, an overdue request and a recent breach;
\* m1 has a backlog of pending requests and no merchant was ever audited,
\* which gives issues of severity high
InitDailyTables ==
    /\ now = 0
    /\ \E overdue \in [Tenants -> {0, 1}] :
          dsrRepo = Rows(Request("m1", "pending", now - Days(1)), MaxPendingRequests)
              \o Rows(Request("m1", "pending", now - Days(31)), overdue["m1"])
              \o Rows(Request("m2", "pending", now - Days(31)), overdue["m2"])
    /\ consentRepo = <<>>
    /\ \E recent \in [Tenants -> {0, 1}] :
          breachRepo = TableOf((Breach("m1", now - Days(1)) :> recent["m1"])
                               @@ (Breach("m2", now - Days(1)) :> recent["m2"]))
    /\ alertRepo \in {<<>>, <<NewAlert([merchantId |-> "m2", type |-> "data_breach",
                                         severity |-> "critical"])>>}
    /\ alertOps = 0
    /\ alertCall = Undefined
    /\ requestOps = 0
    /\ health = Undefined
    /\ metrics = Undefined
    /\ IdleJobs

InitDaily == InitDailyTables /\ IdleTenants /\ IdleGap /\ IdleRisk /\ IdleAssess

\* the daily health checks
SpecDaily == InitDaily /\ [][NextDaily]_vars

\* the requests that exist and one id that no request has
RequestIds == 1..(Len(dsrRepo) + 1)

NextRequests ==
    \/ \E m \in Tenants \cup {UnknownMerchant}, type \in RequestTypes :
           CreateRequest(m, type)
    \/ \E requestId \in RequestIds, status \in RequestStatuses :
           UpdateRequestStatus(requestId, status)
    \/ \E requestId \in RequestIds : ProcessAccessRequest(requestId)
    \/ \E requestId \in RequestIds : ProcessErasureRequest(requestId)
    \/ \E requestId \in RequestIds : ProcessPortabilityRequest(requestId)
    \/ PortabilityProcessAccess
    \/ MarkProcessing
    \/ CompleteRequest

\* m1 has a pending request of each type
InitRequestTables ==
    /\ now = 0
    /\ dsrRepo = <<NewRequest("m1", "access"), NewRequest("m1", "erasure"),
                   NewRequest("m1", "portability")>>
    /\ consentRepo = <<>>
    /\ breachRepo = <<>>
    /\ alertRepo = <<>>
    /\ alertOps = 0
    /\ alertCall = Undefined
    /\ requestOps = 0
    /\ health = Undefined
    /\ metrics = Undefined
    /\ IdleJobs

InitRequests == InitRequestTables /\ IdleTenants /\ IdleGap /\ IdleRisk /\ IdleAssess

\* the data-subject-request operations
SpecRequests == InitRequests /\ [][NextRequests]_vars

\* a call that can take its next step takes it
SpecRequestsFair ==
    /\ SpecRequests
    /\ WF_vars(PortabilityProcessAccess)
    /\ WF_vars(MarkProcessing)
    /\ WF_vars(CompleteRequest)

NextHealth == \E m \in Tenants \cup {UnknownMerchant} : PerformComplianceHealthCheck(m)

\* the health check over every staleness of the last audit and every backlog
InitHealthCheck ==
    InitHealthTables /\ InitHealthAudits /\ TenantStore /\ IdleGap /\ IdleRisk /\ IdleAssess

SpecHealth == InitHealthCheck /\ [][NextHealth]_vars

NextMonitor ==
    \/ \E m \in Tenants \cup {UnknownMerchant}, kind \in AlertKinds : CreateAlert(m, kind)
    \/ \E id \in 1..MaxAlerts, dto \in UpdateAlertDtos : UpdateAlert(id, dto)
    \/ \E id \in 1..MaxAlerts, by \in Actors \cup {Absent} : AcknowledgeAlert(id, by)
    \/ \E id \in 1..MaxAlerts, by \in Actors \cup {Absent} : ResolveAlert(id, by)
    \/ \E id \in 1..MaxAlerts : DismissAlert(id)
    \/ \E m \in Tenants \cup {Absent} : GetMonitoringMetrics(m)

\* alerts and the metrics computed from them
InitMonitoring == InitFleetTables /\ IdleTenants /\ IdleGap /\ IdleRisk /\ IdleAssess

SpecMonitor == InitMonitoring /\ [][NextMonitor]_vars

\* calls made so far of the services other than the audit
SideCalls ==
    (IF gapAnalysis # Undefined THEN 1 ELSE 0)
    + (IF thirdPartyAppRepo # <<>> THEN 1 ELSE 0)
    + (IF assessed # Undefined THEN 1 ELSE 0)
    + (IF health # Undefined THEN 1 ELSE 0)
    + (IF metrics # Undefined THEN 1 ELSE 0)
    + (IF dsrCall # Undefined THEN 1 ELSE 0)
    + (IF daily # Undefined THEN 1 ELSE 0)
    + alertOps + requestOps

WithinBudget == SideCalls < MaxSideCalls

\* the call of runComplianceAudit the backend serves
BackendRuns == {"a1"}

\* every service of the backend on a database with two tenants
NextBackend ==
    \/ \E r \in BackendRuns, m \in Tenants \cup {UnknownMerchant} : BeginAudit(r, m)
    \/ \E r \in BackendRuns : AuditCheckPrivacyPolicy(r)
    \/ \E r \in BackendRuns : AuditCheckDataMapping(r)
    \/ \E r \in BackendRuns : AuditCheckLegalBasis(r)
    \/ \E r \in BackendRuns : AuditCheckRetentionPolicies(r)
    \/ \E r \in BackendRuns : SaveCompleted(r)
    \/ \E r \in BackendRuns : UpdateScore(r)
    \/ \E r \in BackendRuns : CatchAndFail(r)
    \/ \E m \in Tenants, updateData \in ProfileUpdates :
           WithinBudget /\ UpdateProfile(m, updateData)
    \/ WithinBudget /\ PerformGapAnalysis
    \/ \E m \in Tenants : WithinBudget /\ ScanShopifyApps(m)
    \/ \E m \in Tenants : WithinBudget /\ PerformRiskAssessment(m)
    \/ \E m \in Tenants \cup {UnknownMerchant} :
           WithinBudget /\ PerformComplianceHealthCheck(m)
    \/ \E m \in Tenants \cup {Absent} : WithinBudget /\ GetMonitoringMetrics(m)
    \/ \E m \in Tenants \cup {UnknownMerchant}, kind \in AlertKinds :
           WithinBudget /\ CreateAlert(m, kind)
    \/ \E id \in 1..MaxAlerts, dto \in UpdateAlertDtos :
           WithinBudget /\ UpdateAlert(id, dto)
    \/ \E id \in 1..MaxAlerts, by \in Actors \cup {Absent} :
           WithinBudget /\ AcknowledgeAlert(id, by)
    \/ \E id \in 1..MaxAlerts, by \in Actors \cup {Absent} :
           WithinBudget /\ ResolveAlert(id, by)
    \/ \E id \in 1..MaxAlerts : WithinBudget /\ DismissAlert(id)
    \/ \E m \in Tenants \cup {UnknownMerchant}, type \in RequestTypes :
           WithinBudget /\ CreateRequest(m, type)
    \/ \E requestId \in RequestIds : WithinBudget /\ ProcessAccessRequest(requestId)
    \/ \E requestId \in RequestIds : WithinBudget /\ ProcessErasureRequest(requestId)
    \/ \E requestId \in RequestIds : WithinBudget /\ ProcessPortabilityRequest(requestId)
    \/ PortabilityProcessAccess
    \/ MarkProcessing
    \/ CompleteRequest
    \/ \E requestId \in RequestIds, status \in RequestStatuses :
           WithinBudget /\ UpdateRequestStatus(requestId, status)
    \/ WithinBudget /\ DailyBegin
    \/ DailyHealthCheck
    \/ DailyIssue
    \/ DailyNextMerchant

\* m1 has a pending request and an active alert
InitBackendTables ==
    /\ now = 0
    /\ dsrRepo = <<Request("m1", "pending", now - Days(1)),
                   [Request("m1", "pending", now - Days(1))
                       EXCEPT !.requestType = "portability"]>>
    /\ consentRepo = TableOf(Consent("m1", Some(now - Days(1))) :> 1)
    /\ breachRepo = TableOf(Breach("m1", now - Days(1)) :> 1)
    /\ alertRepo = <<NewAlert([merchantId |-> "m1", type |-> "data_breach",
                               severity |-> "critical"])>>
    /\ alertOps = 0
    /\ alertCall = Undefined
    /\ requestOps = 0
    /\ health = Undefined
    /\ metrics = Undefined
    /\ IdleJobs

\* m1 was audited 61 days ago, m2 today
InitBackendAudits == auditRepo = AuditTable({"h1"}, Days(61))

InitBackend ==
    InitBackendTables /\ InitBackendAudits /\ TenantStore /\ IdleGap /\ IdleRisk
        /\ IdleAssess

SpecBackend == InitBackend /\ [][NextBackend]_vars

TypeOK == \A r \in Runs : pc[r] \in {"idle", "checkPrivacyPolicy", "checkDataMapping",
    "checkLegalBasis", "checkRetentionPolicies", "saveCompleted",
    "updateComplianceScore", "catch", "returned", "rejected"}
\* ------------------------------------------------------------------------
\* Audit pipeline: score, failure path, terminal status, success path
\* ------------------------------------------------------------------------
HasResult(r) == auditResult[r] # Undefined

\* the deductions as the audit rules state them, from what each check read
PolicyDeduction(policies) ==
    IF policies = <<>> THEN 30 ELSE IF policies[1] = "published" THEN 0 ELSE 15
MappingDeduction(points) == IF Len(points) = 0 THEN 25 ELSE 0
LegalBasisDeduction(points) ==
    IF \E i \in 1..Len(points) : points[i].legalBasis = "" THEN 20 ELSE 0
RetentionDeduction(points) ==
    IF \E i \in 1..Len(points) : points[i].retentionPeriod = 0 THEN 10 ELSE 0
ExpectedScore(s) ==
    Max(0, Min(100, 100 - (PolicyDeduction(s.policies) + MappingDeduction(s.mapping)
                           + LegalBasisDeduction(s.legal)
                           + RetentionDeduction(s.retention))))
NoPolicyNoDataPoints(s) ==
    s.policies = <<>> /\ s.mapping = <<>> /\ s.legal = <<>> /\ s.retention = <<>>

\* C1: the audit score is clamp(100 - sum of the triggered deductions, 0, 100)
\* with deductions 30/15 (policy), 25 (no data points), 20 flat (legal basis),
\* 10 flat (retention); the status is compliant iff score >= 80, under_review
\* iff 60 <= score < 80, non_compliant otherwise; no policy and no data points
\* give 45, non_compliant and exactly the two findings critical 'Privacy
\* Policy' and high 'Data Mapping'.
C1_AuditScore ==
    \A r \in Runs : HasResult(r) =>
        LET res == auditResult[r]
        IN  /\ res.score = ExpectedScore(seen[r])
            /\ res.score \in 0..100
            /\ (res.status = "compliant") <=> (res.score >= 80)
            /\ (res.status = "under_review") <=> (res.score >= 60 /\ res.score < 80)
            /\ (res.status = "non_compliant") <=> (res.score < 60)
            /\ NoPolicyNoDataPoints(seen[r]) =>
                  /\ res.score = 45
                  /\ res.status = "non_compliant"
                  /\ Len(res.findings) = 2
                  /\ res.findings[1].category = "Privacy Policy"
                  /\ res.findings[1].severity = "critical"
                  /\ res.findings[2].category = "Data Mapping"
                  /\ res.findings[2].severity = "high"

C1_Witness ==
    \E r \in Runs :
        /\ HasResult(r)
        /\ NoPolicyNoDataPoints(seen[r])
        /\ auditResult[r].score = 45

CheckErrors == {PolicyQueryError, DataPointQueryError}
CheckRaised(r) == caught[r] \in CheckErrors

IsTerminal(status) == status \in {"completed", "failed"}

\* C3: an audit persisted as 'completed' or 'failed' never changes status again
C3_TerminalStatusIsFinal ==
    [][\A r \in DOMAIN auditRepo :
          IsTerminal(auditRepo[r].status) =>
              auditRepo'[r].status = auditRepo[r].status]_vars

\* C4: when the checks finish without error the audit is persisted as
\* 'completed' with riskScore = 100 - score, the findings and recommendations
\* of the checks and a completion timestamp, then the merchant's
\* complianceScore is set to score; when the run returns,
\* audit.riskScore + merchant.complianceScore = 100.
CompletedAsComputed(r) ==
    /\ r \in DOMAIN auditRepo
    /\ auditRepo[r].status = "completed"
    /\ auditRepo[r].riskScore = 100 - auditResult[r].score
    /\ auditRepo[r].findings = auditResult[r].findings
    /\ auditRepo[r].recommendations = auditResult[r].recommendations
    /\ "completedAt" \in DOMAIN auditRepo[r]

Analyzed == gapAnalysis # Undefined

RECURSIVE SumSeq(_)
SumSeq(s) == IF s = <<>> THEN 0 ELSE Head(s) + SumSeq(Tail(s))

\* the weights as the scoring rule states them
Weight(requirement) ==
    IF requirement = "mandatory" THEN 10
    ELSE IF requirement = "recommended" THEN 5
    ELSE 1

\* twice the share of its weight a classified rule earns
Earned2(gap) ==
    IF gap.currentStatus = "compliant" THEN 2 * Weight(gap.rule.requirement)
    ELSE IF gap.currentStatus = "partial" THEN Weight(gap.rule.requirement)
    ELSE 0

\* C5: overallComplianceScore is totalScore / maxScore * 100 rounded to the
\* nearest integer, maxScore summing the weights (10, 5, 1) of the applicable
\* rules and totalScore the full weight of each compliant rule and half the
\* weight of each partial one; it is an integer in 0..100; no applicable rule
\* gives 100 with no gaps and no priority actions; a compliant mandatory rule
\* with a non_compliant optional rule gives 91.
C5_GapScore ==
    Analyzed =>
        LET gaps == gapAnalysis.gaps
            score == gapAnalysis.overallComplianceScore
            maxScore == SumSeq([i \in 1..Len(gaps) |-> Weight(gaps[i].rule.requirement)])
            totalScore2 == SumSeq([i \in 1..Len(gaps) |-> Earned2(gaps[i])])
        IN  /\ score \in 0..100
            /\ Len(gaps) = Len(applicableRules)
            /\ \A i \in 1..Len(gaps) : gaps[i].rule = applicableRules[i]
            /\ applicableRules = <<>> =>
                  /\ score = 100
                  /\ gaps = <<>>
                  /\ gapAnalysis.priorityActions = <<>>
            /\ applicableRules # <<>> =>
                  /\ 2 * maxScore * score - 100 * totalScore2 <= maxScore
                  /\ 100 * totalScore2 - 2 * maxScore * score <= maxScore
            /\ (/\ Len(gaps) = 2
                /\ gaps[1].rule.requirement = "mandatory"
                /\ gaps[1].currentStatus = "compliant"
                /\ gaps[2].rule.requirement = "optional"
                /\ gaps[2].currentStatus = "non_compliant") => score = 91

C5_Witness ==
    /\ Analyzed
    /\ Len(gapAnalysis.gaps) = 2
    /\ gapAnalysis.gaps[1].rule.requirement = "mandatory"
    /\ gapAnalysis.gaps[1].currentStatus = "compliant"
    /\ gapAnalysis.gaps[2].rule.requirement = "optional"
    /\ gapAnalysis.gaps[2].currentStatus = "non_compliant"
    /\ gapAnalysis.overallComplianceScore = 91

Levels == <<"low", "medium", "high", "critical">>
Rank(level) == CHOOSE n \in 1..Len(Levels) : Levels[n] = level
OneStepUp(level) == Levels[Min(Rank(level) + 1, Len(Levels))]

\* C6: the level reported for a rule is the base level of its category
\* classification, except that a mandatory non_compliant rule is reported
\* one step higher on low < medium < high < critical, critical staying
\* critical; it is never below the level the same rule gets as a recommended
\* or an optional one, and no other rule is escalated.
C6_Escalation ==
    Analyzed =>
        \A i \in 1..Len(gapAnalysis.gaps) :
            LET gap == gapAnalysis.gaps[i]
                base == classifyByCategory(gap.rule, merchantData).riskLevel
                escalated == gap.rule.requirement = "mandatory"
                                /\ gap.currentStatus = "non_compliant"
            IN  /\ gap.riskLevel \in {Levels[n] : n \in 1..Len(Levels)}
                /\ escalated => gap.riskLevel = OneStepUp(base)
                /\ ~escalated => gap.riskLevel = base
                /\ \A other \in {"recommended", "optional"} :
                      Rank(gap.riskLevel) >=
                          Rank(analyzeRuleCompliance(
                                   [gap.rule EXCEPT !.requirement = other],
                                   merchantData).riskLevel)

C6_Witness ==
    /\ Analyzed
    /\ \E i \in 1..Len(gapAnalysis.gaps) :
          /\ gapAnalysis.gaps[i].rule.requirement = "mandatory"
          /\ gapAnalysis.gaps[i].currentStatus = "non_compliant"
          /\ classifyByCategory(gapAnalysis.gaps[i].rule, merchantData).riskLevel = "high"
          /\ gapAnalysis.gaps[i].riskLevel = "critical"
    /\ \E i \in 1..Len(gapAnalysis.gaps) :
          /\ gapAnalysis.gaps[i].rule.requirement = "mandatory"
          /\ gapAnalysis.gaps[i].currentStatus = "non_compliant"
          /\ classifyByCategory(gapAnalysis.gaps[i].rule, merchantData).riskLevel
                = "critical"
          /\ gapAnalysis.gaps[i].riskLevel = "critical"

IsCritical(gap) == gap.riskLevel = "critical"
IsHigh(gap) == gap.riskLevel = "high"

\* the high and critical gaps, all critical before all high, each group in
\* rule order
CriticalThenHigh(gaps) == SelectSeq(gaps, IsCritical) \o SelectSeq(gaps, IsHigh)

\* C7: priorityActions is the action strings of the first 5 gaps of the
\* high and critical gaps sorted stably by descending rank: at most 5
\* entries, each from a high or critical gap, none when no gap is high or
\* critical.
C7_PriorityActions ==
    Analyzed =>
        LET ordered == CriticalThenHigh(gapAnalysis.gaps)
            actions == gapAnalysis.priorityActions
        IN  /\ Len(actions) <= 5
            /\ Len(actions) = Min(5, Len(ordered))
            /\ \A i \in 1..Len(actions) : actions[i] = ordered[i].actionRequired
            /\ ordered = <<>> => actions = <<>>

C7_Witness ==
    /\ Analyzed
    /\ Len(CriticalThenHigh(gapAnalysis.gaps)) > 5
    /\ Len(gapAnalysis.priorityActions) = 5
    /\ \E i, j \in 1..Len(gapAnalysis.gaps) :
          /\ i < j
          /\ IsHigh(gapAnalysis.gaps[i])
          /\ IsCritical(gapAnalysis.gaps[j])
          /\ gapAnalysis.priorityActions[1] = gapAnalysis.gaps[j].actionRequired

\* C8 as stated: priorityActions never holds the same action string twice
C8_NoRepeatedAction ==
    Analyzed =>
        \A i, j \in 1..Len(gapAnalysis.priorityActions) :
            i # j => gapAnalysis.priorityActions[i] # gapAnalysis.priorityActions[j]

\* C8, amended: priorityActions holds one entry per gap among the first 5
\* high or critical gaps, so an action string that several of those gaps
\* share is repeated: it occurs as often as there are such gaps carrying it.
C8_OneEntryPerChosenGap ==
    Analyzed =>
        LET ordered == CriticalThenHigh(gapAnalysis.gaps)
            chosen == SubSeq(ordered, 1, Min(5, Len(ordered)))
            actions == gapAnalysis.priorityActions
        IN  /\ Len(actions) = Len(chosen)
            /\ \A a \in {chosen[i].actionRequired : i \in 1..Len(chosen)} :
                  Cardinality({i \in 1..Len(actions) : actions[i] = a})
                      = Cardinality({i \in 1..Len(chosen) : chosen[i].actionRequired = a})

C8_Witness ==
    /\ Analyzed
    /\ Len(gapAnalysis.priorityActions) >= 2
    /\ gapAnalysis.priorityActions[1] = gapAnalysis.priorityActions[2]
    /\ gapAnalysis.gaps[1].rule.category = "privacy_policy"
    /\ gapAnalysis.gaps[2].rule.category = "privacy_policy"

\* ------------------------------------------------------------------------
\* Risk level of an app risk score
\* ------------------------------------------------------------------------
Assigned == riskLevel # ""

\* C9: score >= 80 is critical, 60 <= score < 80 high, 40 <= score < 60
\* medium, score < 40 low, for every integer score in 0..100.
C9_RiskLevelThresholds ==
    Assigned =>
        /\ riskLevel = "critical" <=> riskScore >= 80
        /\ riskLevel = "high" <=> (riskScore >= 60 /\ riskScore < 80)
        /\ riskLevel = "medium" <=> (riskScore >= 40 /\ riskScore < 60)
        /\ riskLevel = "low" <=> riskScore < 40

C9_Witness == Assigned /\ riskScore = 80 /\ riskLevel = "critical"

\* C10 as stated: 85 is critical, 55 is high, 45 is medium, 10 is low
C10_ScenarioAsStated ==
    Assigned =>
        /\ riskScore = 85 => riskLevel = "critical"
        /\ riskScore = 55 => riskLevel = "high"
        /\ riskScore = 45 => riskLevel = "medium"
        /\ riskScore = 10 => riskLevel = "low"

\* C10, amended: 85 is critical, 55 is medium, 45 is medium, 10 is low
C10_Scenario ==
    Assigned =>
        /\ riskScore = 85 => riskLevel = "critical"
        /\ riskScore = 55 => riskLevel = "medium"
        /\ riskScore = 45 => riskLevel = "medium"
        /\ riskScore = 10 => riskLevel = "low"

C10_Witness == Assigned /\ riskScore = 55 /\ riskLevel = "medium"
\* ------------------------------------------------------------------------
\* Third-party app risk: app score, fleet counts, empty fleet
\* ------------------------------------------------------------------------
Assessed == assessed # Undefined
AssessmentReturned == Assessed /\ assessed.result # Undefined

\* 100 times the weighted sum of the five sub-scores of an app
WeightedSubScores(app) ==
    30 * analyzeDataAccessRisk(app).score + 25 * analyzePermissionRisk(app).score
        + 20 * analyzeComplianceRisk(app).score + 15 * analyzeSecurityRisk(app).score
        + 10 * analyzeReputationRisk(app).score

\* n is x / 100 rounded to the nearest integer, a tie going up
IsRoundOfHundredths(n, x) == 100 * n - 50 <= x /\ x < 100 * n + 50

LevelOfScore(score) ==
    IF score >= 80 THEN "critical" ELSE IF score >= 60 THEN "high"
    ELSE IF score >= 40 THEN "medium" ELSE "low"

\* C11: the risk score of every assessed app is
\* clamp(round(0.30*dataAccess + 0.25*permissions + 0.20*compliance
\* + 0.15*security + 0.10*reputation), 0, 100) over the sub-scores of the five
\* sub-analyses, an integer in 0..100; its riskLevel is the threshold level
\* of that score; and both are the values performRiskAssessment stores on
\* the app record.
C11_AppRiskScore ==
    /\ [](Assessed =>
            \A k \in 1..Len(assessed.apps) :
                LET score == assessed.analyses[k].riskScore
                IN  /\ score \in 0..100
                    /\ IF WeightedSubScores(assessed.apps[k]) >= 9950 THEN score = 100
                       ELSE IsRoundOfHundredths(score,
                                WeightedSubScores(assessed.apps[k]))
                    /\ assessed.analyses[k].riskLevel = LevelOfScore(score))
    /\ [][assessed' # assessed =>
            \A k \in 1..assessed'.saved :
                /\ thirdPartyAppRepo'[assessed'.found[k]].riskScore
                      = assessed'.analyses[k].riskScore
                /\ thirdPartyAppRepo'[assessed'.found[k]].riskLevel
                      = assessed'.analyses[k].riskLevel]_vars

C11_Witness ==
    /\ AssessmentReturned
    /\ \E k \in 1..Len(assessed.apps) :
          /\ WeightedSubScores(assessed.apps[k]) = 7250
          /\ assessed.analyses[k].riskScore = 73
          /\ assessed.found[k] \in 1..Len(thirdPartyAppRepo)
          /\ thirdPartyAppRepo[assessed.found[k]].riskScore = 73
          /\ thirdPartyAppRepo[assessed.found[k]].riskLevel = "high"

LevelCount(analyses, levels) ==
    Cardinality({k \in 1..Len(analyses) : analyses[k].riskLevel \in levels})

\* C12: in every assessment, totalApps is the number of the merchant's active
\* apps, highRiskApps counts the high and critical apps, mediumRiskApps and
\* lowRiskApps the medium and low ones, the three counts add up to
\* totalApps, and overallRiskScore is the rounded mean of the per-app risk
\* scores, an integer in 0..100.
C12_AssessmentCounts ==
    AssessmentReturned =>
        LET result == assessed.result
            analyses == assessed.analyses
            active == {i \in 1..Len(assessed.table) :
                          /\ assessed.table[i].merchantId = assessed.merchantId
                          /\ assessed.table[i].isActive}
            total == SumRiskScores(analyses)
            n == result.totalApps
        IN  /\ n = Cardinality(active)
            /\ Len(analyses) = n
            /\ result.highRiskApps = LevelCount(analyses, {"high", "critical"})
            /\ result.mediumRiskApps = LevelCount(analyses, {"medium"})
            /\ result.lowRiskApps = LevelCount(analyses, {"low"})
            /\ result.highRiskApps + result.mediumRiskApps + result.lowRiskApps = n
            /\ result.overallRiskScore \in 0..100
            /\ n > 0 =>
                  /\ 2 * n * result.overallRiskScore - n <= 2 * total
                  /\ 2 * total < 2 * n * result.overallRiskScore + n

C12_Witness ==
    /\ AssessmentReturned
    /\ Len(assessed.table) > 2
    /\ assessed.result.totalApps = 2
    /\ assessed.result.mediumRiskApps = 1
    /\ assessed.result.lowRiskApps = 1
    /\ SumRiskScores(assessed.analyses) = 51
    /\ assessed.result.overallRiskScore = 26

BreakdownOf(result) ==
    {result.riskBreakdown.dataAccess, result.riskBreakdown.permissions,
     result.riskBreakdown.compliance, result.riskBreakdown.security,
     result.riskBreakdown.reputation}

\* C13: the assessment of a merchant with no active app has all four counts
\* 0, overallRiskScore 0, no recommendations and no compliance gaps, and
\* each of its five riskBreakdown components is a number in 0..100.
C13_EmptyFleet ==
    (AssessmentReturned /\ assessed.apps = <<>>) =>
        LET result == assessed.result
        IN  /\ result.totalApps = 0
            /\ result.highRiskApps = 0
            /\ result.mediumRiskApps = 0
            /\ result.lowRiskApps = 0
            /\ result.overallRiskScore = 0
            /\ result.recommendations = <<>>
            /\ result.complianceGaps = <<>>
            /\ \A component \in BreakdownOf(result) :
                  component # NaN /\ component \in 0..100

\* ------------------------------------------------------------------------
\* Health check: score, issues, staleness tiers
\* ------------------------------------------------------------------------
HealthReturned == health # Undefined /\ health.result # Undefined

StalenessTypes == {"audit_overdue", "audit_due_soon"}
RequestIssueTypes == {"overdue_dsr", "high_pending_dsr"}
WithdrawalIssueTypes == {"high_consent_withdrawals"}
BreachIssueTypes == {"recent_breaches"}

IssuesOfTypes(issues, types) == SelectSeq(issues, LAMBDA issue : issue.type \in types)

\* one issue of one of the severities when the penalty applies, none otherwise
OneIssuePerPenalty(issues, types, penalty, severities) ==
    LET found == IssuesOfTypes(issues, types)
    IN  IF penalty = 0 THEN found = <<>>
        ELSE Len(found) = 1 /\ found[1].severity \in severities

PendingRequestsOf(m) ==
    {id \in DOMAIN dsrRepo : dsrRepo[id].merchantId = m /\ dsrRepo[id].status = "pending"}

\* d: 30 for a pending request older than 30 days, else 15 for more than 5
\* pending requests
RequestPenalty(m) ==
    IF \E id \in PendingRequestsOf(m) : now - dsrRepo[id].createdAt > Days(30) THEN 30
    ELSE IF Cardinality(PendingRequestsOf(m)) > 5 THEN 15
    ELSE 0

\* w: 15 for more than 10 consents withdrawn in the last 30 days
WithdrawalPenalty(m) ==
    LET recent == {row \in DOMAIN consentRepo :
                      /\ row.merchantId = m
                      /\ row.withdrawnAt # Undefined
                      /\ now - row.withdrawnAt[1] < Days(30)}
    IN  IF SumCounts(consentRepo, recent) > 10 THEN 15 ELSE 0

\* b: 40 for a breach incident of the last 30 days
BreachPenalty(m) ==
    IF \E row \in DOMAIN breachRepo : row.merchantId = m /\ now - row.createdAt < Days(30)
    THEN 40 ELSE 0

\* C14: the health check returns max(0, 100 - a - d - w - b) with a in
\* {20, 10, 0} and d, w, b as the backlog, the withdrawals and the breaches of
\* the merchant give them; the score is in 0..100 and issues holds one entry
\* per penalty that applies, of severity high or medium for a, critical or
\* high for d, medium for w and critical for b, and no other entry.
C14_HealthScore ==
    HealthReturned =>
        LET m == health.merchantId
            result == health.result
            d == RequestPenalty(m)
            w == WithdrawalPenalty(m)
            b == BreachPenalty(m)
        IN  /\ result.overallScore \in 0..100
            /\ \E a \in {20, 10, 0} :
                  /\ result.overallScore = Max(0, 100 - a - d - w - b)
                  /\ OneIssuePerPenalty(result.issues, StalenessTypes, a,
                                        {"high", "medium"})
            /\ OneIssuePerPenalty(result.issues, RequestIssueTypes, d,
                                  {"critical", "high"})
            /\ OneIssuePerPenalty(result.issues, WithdrawalIssueTypes, w, {"medium"})
            /\ OneIssuePerPenalty(result.issues, BreachIssueTypes, b, {"critical"})
            /\ \A i \in 1..Len(result.issues) :
                  result.issues[i].type \in StalenessTypes \cup RequestIssueTypes
                      \cup WithdrawalIssueTypes \cup BreachIssueTypes

\* every penalty applies, together with more than 5 pending requests: the
\* penalties add up to 105, the score is 0 and there are four issues
C14_Witness ==
    /\ HealthReturned
    /\ health.merchantId = "m1"
    /\ Cardinality(PendingRequestsOf("m1")) > 5
    /\ health.result.overallScore = 0
    /\ Len(health.result.issues) = 4

\* whole days elapsed since the merchant's most recent audit
WholeDaysSinceLastAudit(m) ==
    LET mine == {auditRepo[id].createdAt : id \in {x \in DOMAIN auditRepo :
                                                      auditRepo[x].merchant = m}}
        latest == CHOOSE t \in mine : \A other \in mine : other <= t
    IN  CHOOSE days \in 0..(now - latest) :
            Days(days) <= now - latest /\ now - latest < Days(days + 1)

HasAudit(m) == \E id \in DOMAIN auditRepo : auditRepo[id].merchant = m

\* C15: more than 90 whole days since the most recent audit, or no audit,
\* gives one 'audit_overdue' issue of severity high and a penalty of 20; 60
\* to 90 days inclusive gives one 'audit_due_soon' issue of severity medium
\* and a penalty of 10; fewer than 60 days gives no staleness issue and no
\* penalty.
C15_StalenessTiers ==
    HealthReturned =>
        LET m == health.merchantId
            result == health.result
            staleness == IssuesOfTypes(result.issues, StalenessTypes)
            others == RequestPenalty(m) + WithdrawalPenalty(m) + BreachPenalty(m)
            overdue == ~HasAudit(m) \/ WholeDaysSinceLastAudit(m) > 90
            dueSoon == HasAudit(m) /\ WholeDaysSinceLastAudit(m) \in 60..90
        IN  IF overdue
            THEN /\ Len(staleness) = 1
                 /\ staleness[1].type = "audit_overdue"
                 /\ staleness[1].severity = "high"
                 /\ result.overallScore = Max(0, 100 - 20 - others)
            ELSE IF dueSoon
            THEN /\ Len(staleness) = 1
                 /\ staleness[1].type = "audit_due_soon"
                 /\ staleness[1].severity = "medium"
                 /\ result.overallScore = Max(0, 100 - 10 - others)
            ELSE /\ staleness = <<>>
                 /\ result.overallScore = Max(0, 100 - others)

\* ------------------------------------------------------------------------
\* Monitoring metrics and alerts
\* ------------------------------------------------------------------------
OfMerchant(rowMerchantId, m) == m = Absent \/ rowMerchantId = m

\* alerts of the merchant (of every merchant when none is given) that have
\* the severity and are in status active
ActiveAlerts(m, severity) ==
    Cardinality({id \in 1..Len(alertRepo) :
                    /\ OfMerchant(alertRepo[id].merchantId, m)
                    /\ alertRepo[id].severity = severity
                    /\ alertRepo[id].status = "active"})

ExpectedComplianceScore(m) ==
    LET pendingRequests == Cardinality({id \in DOMAIN dsrRepo :
                               /\ OfMerchant(dsrRepo[id].merchantId, m)
                               /\ dsrRepo[id].status = "pending"})
        withdrawnConsents == SumCounts(consentRepo, {row \in DOMAIN consentRepo :
                                 /\ OfMerchant(row.merchantId, m)
                                 /\ row.withdrawnAt # Undefined
                                 /\ now - row.withdrawnAt[1] < Days(30)})
        breachIncidents == SumCounts(breachRepo, {row \in DOMAIN breachRepo :
                               /\ OfMerchant(row.merchantId, m)
                               /\ now - row.createdAt < Days(30)})
    IN  Max(0, Min(100, 100 - 2 * pendingRequests - 1 * withdrawnConsents
                            - 10 * breachIncidents
                            - 15 * ActiveAlerts(m, "critical")
                            - 10 * ActiveAlerts(m, "high")
                            - 5 * ActiveAlerts(m, "medium")
                            - 1 * ActiveAlerts(m, "low")))

MetricsReturned == metrics # Undefined /\ metrics.result # Undefined

\* C16: the complianceScore getMonitoringMetrics returns is
\* clamp(100 - 2*pending - withdrawn - 10*breaches - 15*C - 10*H - 5*M - L,
\* 0, 100) over the alerts in status active at the call; acknowledged,
\* resolved and dismissed alerts add no penalty.
C16_ActiveAlertPenalties ==
    [][(metrics = Undefined /\ metrics' # Undefined /\ metrics'.result # Undefined) =>
           metrics'.result.complianceScore = ExpectedComplianceScore(metrics'.merchantId)
      ]_vars

\* active comes first, acknowledged second, resolved and dismissed last
AlertRank(status) ==
    IF status = "active" THEN 0
    ELSE IF status = "acknowledged" THEN 1
    ELSE 2

\* C17: every alert is created with status active, and no call of
\* updateAlert, acknowledgeAlert, resolveAlert or dismissAlert moves the
\* status of an alert back to an earlier one: a resolved or dismissed alert
\* never becomes active or acknowledged, an acknowledged one never active.
C17_StatusMovesForward ==
    [][/\ \A id \in 1..Len(alertRepo) :
             AlertRank(alertRepo'[id].status) >= AlertRank(alertRepo[id].status)
       /\ \A id \in (Len(alertRepo) + 1)..Len(alertRepo') :
             alertRepo'[id].status = "active"
      ]_vars

IsSet(actor) == actor # Absent /\ actor # ""

\* the columns of an alert other than its description and the stamps of the
\* acknowledgement and of the resolution
OtherColumns(alert) ==
    DOMAIN alert \ {"merchantId", "type", "severity", "status",
                    "acknowledgedBy", "acknowledgedAt", "resolvedBy", "resolvedAt"}

\* C18: an acknowledged alert has acknowledgedBy and acknowledgedAt set, a
\* resolved alert has resolvedBy and resolvedAt set, and a dismissed alert
\* carries the actor and the time of the dismissal in columns of its own.
C18_TransitionsAreStamped ==
    \A id \in 1..Len(alertRepo) :
        LET alert == alertRepo[id]
        IN  /\ alert.status = "acknowledged" =>
                   IsSet(alert.acknowledgedBy) /\ alert.acknowledgedAt # Undefined
            /\ alert.status = "resolved" =>
                   IsSet(alert.resolvedBy) /\ alert.resolvedAt # Undefined
            /\ alert.status = "dismissed" =>
                   \E by, at \in OtherColumns(alert) :
                       by # at /\ IsSet(alert[by]) /\ alert[at] # Undefined

\* ------------------------------------------------------------------------
\* Concurrent audit runs of one merchant
\* ------------------------------------------------------------------------
\* what the four checks would read from the tables now
StoreNow(m) ==
    [policies |-> policyRepo[m], mapping |-> dataPointRepo[m],
     legal |-> dataPointRepo[m], retention |-> dataPointRepo[m]]

WritesScore(r) == pc[r] = "updateComplianceScore" /\ pc'[r] = "returned"

\* C19: a run can begin whatever the other run is doing, so two runs of one
\* merchant are in status 'processing' together; each score update stores
\* the score of the run that makes it, whatever the other run stored, so the
\* merchant's score is the one written last.
C19_LastWriteWins ==
    /\ [](\A r \in Runs : pc[r] = "idle" => ENABLED BeginAudit(r, "m1"))
    /\ [][\A r \in Runs : WritesScore(r) =>
              merchantRepo'[runMerchant[r]].complianceScore = auditResult[r].score
         ]_vars

\* both runs of m1 have returned and their audits are completed; the score
\* on the merchant is the one computed before the policy table changed, not
\* the one computed from the tables as they are
C19_Witness ==
    /\ \A r \in Runs : pc[r] = "returned" /\ runMerchant[r] = "m1"
                          /\ auditRepo[r].status = "completed"
    /\ \E stale, fresh \in Runs :
          /\ auditResult[fresh].score = ExpectedScore(StoreNow("m1"))
          /\ auditResult[stale].score # auditResult[fresh].score
          /\ merchantRepo["m1"].complianceScore = auditResult[stale].score

\* ------------------------------------------------------------------------
\* Frame of the merchant's score and status
\* ------------------------------------------------------------------------
\* a step of run r
StepOf(r) == pc'[r] # pc[r]

\* C20: a merchant's complianceScore and complianceStatus change only in the
\* score update of an audit run of that merchant; every other step, of the
\* other services and of a run that fails, leaves them unchanged; and the
\* audit rows a step writes are those of the stepping run's own merchant.
C20_ScoreFrame ==
    [][/\ \A m \in DOMAIN merchantRepo :
             merchantRepo'[m] # merchantRepo[m] =>
                 \E r \in Runs : WritesScore(r) /\ runMerchant[r] = m
       /\ \A id \in DOMAIN auditRepo' :
             (id \notin DOMAIN auditRepo \/ auditRepo'[id] # auditRepo[id]) =>
                 /\ id \in Runs
                 /\ StepOf(id)
                 /\ auditRepo'[id].merchant = runMerchant'[id]
       /\ DOMAIN auditRepo \subseteq DOMAIN auditRepo'
      ]_vars

\* ------------------------------------------------------------------------
\* Operations on a merchant that does not exist
\* ------------------------------------------------------------------------
\* the tables of the database
Stored ==
    <<merchantRepo, policyRepo, dataPointRepo, auditRepo, thirdPartyAppRepo,
      riskAssessmentRepo, dsrRepo, consentRepo, breachRepo, alertRepo>>

\* run r is called in this step
Begins(r) == pc[r] = "idle" /\ pc'[r] # "idle"

\* the health check is called in this step
HealthCalled == health = Undefined /\ health' # Undefined

\* C21: an operation given the id of a merchant that does not exist raises
\* the not-found error and leaves every table unchanged: runComplianceAudit
\* is rejected before it creates an audit row and the rejected run takes no
\* further step (so it writes no score), performComplianceHealthCheck
\* returns no result, and createAlert appends no alert. The one other error
\* such a call can raise is the rejection of its query by the database.
C21_UnknownMerchant ==
    [][/\ \A r \in Runs :
             /\ Begins(r) /\ runMerchant'[r] = UnknownMerchant =>
                    /\ pc'[r] = "rejected"
                    /\ raised'[r] = NotFoundError(UnknownMerchant)
                    /\ audit'[r] = Undefined
                    /\ UNCHANGED Stored
             /\ pc[r] = "rejected" => pc'[r] = "rejected"
       /\ HealthCalled /\ health'.merchantId = UnknownMerchant =>
             /\ health'.result = Undefined
             /\ health'.raised \in {NotFoundError(UnknownMerchant), HealthQueryError}
             /\ UNCHANGED Stored
       /\ (\E kind \in AlertKinds : CreateAlert(UnknownMerchant, kind)) =>
             /\ alertCall'.raised \in {NotFoundError(UnknownMerchant), AlertSaveError}
             /\ UNCHANGED Stored
       /\ \A id \in DOMAIN auditRepo' : auditRepo'[id].merchant # UnknownMerchant
       /\ \A i \in 1..Len(alertRepo') : alertRepo'[i].merchantId # UnknownMerchant
      ]_vars

\* a run for the unknown merchant was rejected with the not-found error and
\* the alert creation for it raised the same, with the tables as they were
C21_Witness ==
    /\ \E r \in Runs : /\ pc[r] = "rejected"
                        /\ runMerchant[r] = UnknownMerchant
                        /\ raised[r] = NotFoundError(UnknownMerchant)
    /\ alertCall # Undefined
    /\ alertCall.raised = NotFoundError(UnknownMerchant)
    /\ alertRepo = <<NewAlert([merchantId |-> "m1", type |-> "data_breach",
                               severity |-> "critical"])>>
    /\ \A id \in DOMAIN auditRepo : id \notin Runs

\* ------------------------------------------------------------------------
\* Processing a request through the operation of another type
\* ------------------------------------------------------------------------
\* a process operation is called in this step
ProcessCalled == dsrCall = Undefined /\ dsrCall' # Undefined

\* the request the call names exists and is of another type than the
\* operation's
OfAnotherType(call) ==
    call.requestId \in DOMAIN dsrRepo /\ dsrRepo[call.requestId].requestType # call.op

\* C22: a process operation called on a request of another type raises its
\* type error without writing anything: the request's status, responseData
\* and completedAt are as they were, and the rejected call takes no further
\* step, so it never moves the request to 'processing' or 'completed'.
C22_WrongTypeRejected ==
    [][/\ ProcessCalled /\ OfAnotherType(dsrCall') =>
             /\ dsrCall'.pc = "rejected"
             /\ dsrCall'.raised = WrongTypeError(dsrCall'.op)
             /\ UNCHANGED dsrRepo
       /\ (dsrCall # Undefined /\ dsrCall.pc = "rejected") => UNCHANGED dsrCall
       /\ (dsrCall # Undefined /\ dsrCall.op \in {"access", "erasure"}
              /\ dsrCall.pc \in {"markProcessing", "complete"}) =>
             dsrRepo[dsrCall.requestId].requestType = dsrCall.op
      ]_vars

\* processErasureRequest was called on the access request and rejected; the
\* request is still pending and unanswered
C22_Witness ==
    /\ dsrCall # Undefined
    /\ dsrCall.op = "erasure"
    /\ dsrCall.requestId = 1
    /\ dsrCall.raised = NotErasureError
    /\ dsrRepo[1] = NewRequest("m1", "access")

\* ------------------------------------------------------------------------
\* Portability requests
\* ------------------------------------------------------------------------
\* processPortabilityRequest has loaded a pending request of type portability
PortabilityCalledOnPending ==
    /\ dsrCall # Undefined
    /\ dsrCall.op = "portability"
    /\ dsrCall.request # Undefined
    /\ dsrCall.request.requestType = "portability"
    /\ dsrCall.request.status = "pending"

\* the call has returned the export as a buffer and the request is completed
\* with the export stored
PortabilityCompleted ==
    /\ dsrCall # Undefined
    /\ dsrCall.op = "portability"
    /\ dsrCall.pc = "returned"
    /\ dsrRepo[dsrCall.requestId].status = "completed"
    /\ dsrRepo[dsrCall.requestId].completedAt # Undefined
    /\ dsrRepo[dsrCall.requestId].responseData # Undefined
    /\ dsrCall.returned = bufferOf(dsrRepo[dsrCall.requestId].responseData)

\* C29: processPortabilityRequest called on a pending request of type
\* portability eventually returns the export as a JSON buffer, with the
\* request completed, its export stored as responseData and completedAt set.
C29_PortabilityCompletes == PortabilityCalledOnPending ~> PortabilityCompleted

\* ------------------------------------------------------------------------
\* The policy check of the audit
\* ------------------------------------------------------------------------
\* run r completes its policy check in this step
PolicyChecked(r) == pc[r] = "checkPrivacyPolicy" /\ pc'[r] = "checkDataMapping"

\* what the step added to the findings and recommendations of run r
NewFindings(r) == SubSeq(findings'[r], Len(findings[r]) + 1, Len(findings'[r]))
NewRecommendations(r) ==
    SubSeq(recommendations'[r], Len(recommendations[r]) + 1, Len(recommendations'[r]))

\* C23: the policy check looks at the merchant's newest policy. With no
\* policy it adds one critical 'Privacy Policy' finding ('No privacy policy
\* found'), one urgent 'Create Privacy Policy' recommendation, and deducts
\* 30; with a newest policy that is not published it adds one high finding
\* ('Privacy policy exists but is not published') and deducts 15, whatever
\* the older policies are; with a published newest policy it adds no finding
\* and deducts nothing.
C23_PolicyCheck ==
    [][\A r \in Runs : PolicyChecked(r) =>
          LET policies == policyRepo[runMerchant[r]]
              deduction == totalScore[r] - totalScore'[r]
          IN  IF policies = <<>>
              THEN /\ Len(NewFindings(r)) = 1
                   /\ NewFindings(r)[1].category = "Privacy Policy"
                   /\ NewFindings(r)[1].severity = "critical"
                   /\ NewFindings(r)[1].description = "No privacy policy found"
                   /\ Len(NewRecommendations(r)) = 1
                   /\ NewRecommendations(r)[1].priority = "urgent"
                   /\ NewRecommendations(r)[1].title = "Create Privacy Policy"
                   /\ deduction = 30
              ELSE IF Head(policies) # "published"
              THEN /\ Len(NewFindings(r)) = 1
                   /\ NewFindings(r)[1].category = "Privacy Policy"
                   /\ NewFindings(r)[1].severity = "high"
                   /\ NewFindings(r)[1].description
                          = "Privacy policy exists but is not published"
                   /\ deduction = 15
              ELSE NewFindings(r) = <<>> /\ deduction = 0
      ]_vars

\* the merchant's newest policy is a draft and an older one is published:
\* the check has added the high finding and deducted 15
C23_Witness ==
    \E r \in Runs :
        /\ pc[r] = "checkDataMapping"
        /\ seen[r].policies = <<"draft", "published">>
        /\ Len(findings[r]) = 1
        /\ findings[r][1].severity = "high"
        /\ totalScore[r] = 85

\* ------------------------------------------------------------------------
\* Gap analysis: the classification by category
\* ------------------------------------------------------------------------
\* the categories whose rules can be classified compliant
FullyCheckedCategories == {"privacy_policy", "consent_management", "cookie_management"}

\* what makes a rule of such a category compliant
IsSatisfied(category, md) ==
    IF category = "privacy_policy" THEN "privacy_policy" \in md.currentPolicies
    ELSE IF category = "consent_management"
    THEN "consent_management" \in md.implementedControls
    ELSE "cookie_consent" \in md.implementedControls

\* the control a rule of another category is matched with
MatchingControl(category) ==
    IF category = "data_subject_rights" THEN "dsar_workflow" ELSE category

\* C24: a rule of category data_subject_rights, or of a category the
\* classification has no case for, is partial with risk medium when its
\* matching control ('dsar_workflow', or the category's name) is implemented
\* and non_compliant otherwise, never compliant; a privacy_policy,
\* consent_management or cookie_management rule is compliant iff
\* 'privacy_policy' is among the current policies, 'consent_management' or
\* 'cookie_consent' among the implemented controls, and non_compliant
\* otherwise.
C24_Classification ==
    Analyzed =>
        \A i \in 1..Len(gapAnalysis.gaps) :
            LET gap == gapAnalysis.gaps[i]
                category == gap.rule.category
            IN  IF category \in FullyCheckedCategories
                THEN gap.currentStatus =
                         IF IsSatisfied(category, merchantData) THEN "compliant"
                         ELSE "non_compliant"
                ELSE IF MatchingControl(category) \in merchantData.implementedControls
                THEN gap.currentStatus = "partial" /\ gap.riskLevel = "medium"
                ELSE gap.currentStatus = "non_compliant"

\* a mandatory data_subject_rights rule and a data_retention rule of a
\* merchant that has both matching controls: both are partial
C24_Witness ==
    /\ Analyzed
    /\ {"dsar_workflow", "data_retention"} \subseteq merchantData.implementedControls
    /\ \E i, j \in 1..Len(gapAnalysis.gaps) :
          /\ gapAnalysis.gaps[i].rule.category = "data_subject_rights"
          /\ gapAnalysis.gaps[i].rule.requirement = "mandatory"
          /\ gapAnalysis.gaps[i].currentStatus = "partial"
          /\ gapAnalysis.gaps[j].rule.category = "data_retention"
          /\ gapAnalysis.gaps[j].currentStatus = "partial"

\* ------------------------------------------------------------------------
\* The five sub-analyses of an app
\* ------------------------------------------------------------------------
\* the sub-scores the analyses return for an app
SubScores(app) ==
    <<analyzeDataAccessRisk(app).score, analyzePermissionRisk(app).score,
      analyzeComplianceRisk(app).score, analyzeSecurityRisk(app).score,
      analyzeReputationRisk(app).score>>

\* C25: for every assessed app each of the five sub-analyses (data access,
\* permissions, compliance, security, reputation) returns a sub-score in
\* 0..100.
C25_SubScoresInRange ==
    Assessed =>
        \A k \in 1..Len(assessed.apps) :
            \A n \in 1..5 : SubScores(assessed.apps[k])[n] \in 0..100

\* ------------------------------------------------------------------------
\* The shared 'Data Processing Agreements' gap
\* ------------------------------------------------------------------------
\* the names of the assessed apps that have no privacy policy URL, in the
\* order of the assessment
RECURSIVE NamesMissingPolicy(_)
NamesMissingPolicy(apps) ==
    IF apps = <<>> THEN <<>>
    ELSE (IF HasPrivacyPolicyUrl(Head(apps)) THEN <<>> ELSE <<Head(apps).appName>>)
             \o NamesMissingPolicy(Tail(apps))

SharedGaps(result) ==
    SelectSeq(result.complianceGaps,
              LAMBDA gap : gap.regulation = "GDPR"
                               /\ gap.requirement = "Data Processing Agreements")

\* C26: an assessment holds at most one GDPR 'Data Processing Agreements'
\* gap; it is present iff at least one assessed app has no privacy policy
\* URL, and its affectedApps are the names of exactly those apps, so an app
\* that has a privacy policy URL is never listed.
C26_SharedGap ==
    AssessmentReturned =>
        LET shared == SharedGaps(assessed.result)
            missing == NamesMissingPolicy(assessed.apps)
        IN  /\ Len(shared) <= 1
            /\ Len(shared) = 1 <=> missing # <<>>
            /\ Len(shared) = 1 => shared[1].affectedApps = missing

\* ------------------------------------------------------------------------
\* The daily health checks
\* ------------------------------------------------------------------------
IsCriticalIssue(issue) == issue.severity = "critical"

\* the alerts the run created for a merchant
AlertsOfRun(m) == {i \in 1..Len(daily.alerts) : alertRepo[daily.alerts[i]].merchantId = m}

\* the run has gone through the whole list without an error
DailyCompleted == daily # Undefined /\ daily.pc = "done" /\ daily.logged = NoError

\* the run handles an issue in this step
IssueHandled == daily # Undefined /\ daily.pc = "issues" /\ daily' # daily
                    /\ daily.issues # <<>>

\* C27: a run of performDailyHealthChecks that meets no error has run the
\* health check of every merchant, and for each issue of severity critical
\* of a merchant it has created one alert of type compliance_violation,
\* severity critical and status active for that merchant; handling an issue
\* of severity high or medium creates no alert.
C27_CriticalIssuesAlerted ==
    /\ [](DailyCompleted =>
            /\ \A m \in DOMAIN merchantRepo :
                  \E k \in 1..Len(daily.results) :
                      /\ daily.results[k] = healthCheckOf(m)
                      /\ \A other \in 1..Len(daily.results) :
                            daily.results[other].merchantId = m => other = k
                      /\ Cardinality(AlertsOfRun(m))
                            = Len(SelectSeq(daily.results[k].issues, IsCriticalIssue))
            /\ \A i \in 1..Len(daily.alerts) :
                  /\ alertRepo[daily.alerts[i]].type = "compliance_violation"
                  /\ alertRepo[daily.alerts[i]].severity = "critical"
                  /\ alertRepo[daily.alerts[i]].status = "active")
    /\ [][IF IssueHandled /\ daily'.logged = NoError
               /\ Head(daily.issues).severity = "critical"
          THEN /\ Len(alertRepo') = Len(alertRepo) + 1
               /\ SubSeq(alertRepo', 1, Len(alertRepo)) = alertRepo
               /\ alertRepo'[Len(alertRepo')].merchantId = daily.list[daily.index]
          ELSE alertRepo' = alertRepo
        ]_vars

\* both merchants have an overdue request, a recent breach and an overdue
\* audit, an issue of severity high: the completed run created four alerts,
\* two for each merchant
C27_Witness ==
    /\ DailyCompleted
    /\ Len(daily.alerts) = 4
    /\ \A m \in Tenants : Cardinality(AlertsOfRun(m)) = 2
    /\ \A k \in 1..Len(daily.results) :
          /\ Len(daily.results[k].issues) = 3
          /\ daily.results[k].issues[1].severity = "high"

\* the merchants the loop has not reached
NotReached == {daily.list[i] : i \in (daily.index + 1)..Len(daily.list)}

\* C30: performDailyHealthChecks ends in its own catch block and raises
\* nothing: when the merchant query, a health check or an alert creation
\* fails, the error is logged and the run is over; the failing step writes
\* no alert and the alerts created before it remain; the merchants later in
\* the list have no health check and no alert of the run.
C30_FailureEndsRun ==
    /\ [](daily # Undefined /\ daily.logged # NoError =>
            /\ daily.pc = "done"
            /\ \A m \in NotReached :
                  /\ AlertsOfRun(m) = {}
                  /\ \A k \in 1..Len(daily.results) : daily.results[k].merchantId # m)
    /\ [][/\ (daily # Undefined /\ daily.pc = "done") => UNCHANGED <<daily, alertRepo>>
          /\ (daily # Undefined /\ daily'.logged # NoError) =>
                 /\ alertRepo' = alertRepo
                 /\ daily'.alerts = daily.alerts
        ]_vars

\* the alert creation failed for the second critical issue of the first
\* merchant: its first alert remains, and the second merchant, that has a
\* recent breach, was not checked
C30_Witness ==
    /\ daily # Undefined
    /\ daily.logged = AlertSaveError
    /\ daily.index = 1
    /\ Len(daily.alerts) = 1
    /\ Len(daily.results) = 1
    /\ \E m \in NotReached : countBreaches(m) > 0

\* the categories of the findings performAuditChecks returned to call r
FoundCategories(r) ==
    {auditResult[r].findings[i].category : i \in DOMAIN auditResult[r].findings}

\* performAuditChecks of call r has returned, and its three data point
\* queries returned the same rows
SameDataPointsRead(r) ==
    /\ auditResult[r] # Undefined
    /\ seen[r].mapping = seen[r].legal
    /\ seen[r].legal = seen[r].retention

\* C28: in an audit run whose three data point queries returned the same
\* rows, the 'Data Mapping' finding is never accompanied by a 'Legal Basis'
\* or a 'Data Retention' finding, the deductions add up to at most 60 and
\* the score is at least 40.
C28_MappingExcludesPointFindings ==
    \A r \in Runs :
        SameDataPointsRead(r) =>
            /\ "Data Mapping" \in FoundCategories(r) =>
                   /\ "Legal Basis" \notin FoundCategories(r)
                   /\ "Data Retention" \notin FoundCategories(r)
            /\ 100 - totalScore[r] <= 60
            /\ auditResult[r].score >= 40

\* a run that read the same non-empty rows three times, while a data point
\* was written before or after, and lost the full 60 points
C28_Witness ==
    \E r \in Runs :
        /\ SameDataPointsRead(r)
        /\ storeWrites > 0
        /\ Len(seen[r].mapping) > 0
        /\ FoundCategories(r) = {"Privacy Policy", "Legal Basis", "Data Retention"}
        /\ totalScore[r] = 40
        /\ auditResult[r].score = 40

====
